---- MODULE Spec2Model ----
(***************************************************************************)
(* Survey analysis pipeline: plan schema validation (src/src/schema.py),   *)
(* CSV loader with QA filters (src/src/loader.py), confirmatory test       *)
(* engine and multiple-comparison correction (src/src/analysis.py), the    *)
(* Likert encoder, descriptives and correlations, item labels              *)
(* (src/src/labels.py, src/src/outputs.py) and the pipeline that strings   *)
(* them together (src/scripts/run_pipeline.py).                            *)
(*                                                                         *)
(* Each component is a specification of its own over the shared state:     *)
(*   SpecConf    run_confirmatory_tests, one loop iteration per step       *)
(*   SpecFdr     apply_fdr_correction on a result list                     *)
(*   SpecLoad    load_and_filter on a source file                          *)
(*   SpecSchema  AnalysisPlan.model_validate on a raw plan document        *)
(*   SpecPipe    load, encode, descriptives, correlations on a file        *)
(*   SpecConfFdr run_confirmatory_tests followed by apply_fdr_correction   *)
(*   SpecLabels  init_labels on a plan                                     *)
(*   SpecRuns    two pipeline runs interleaved in one process              *)
(*   SpecEncode  encode_likert and compute_descriptives on one column      *)
(*   SpecGroups  one grouped confirmatory test on a table of groups        *)
(*   SpecFdrTwice apply_fdr_correction applied twice to a result list      *)
(***************************************************************************)
EXTENDS Integers, Sequences, FiniteSets, TLC

VARIABLES
    pc,           \* position of the running operation
    raw,          \* raw plan document handed to AnalysisPlan.model_validate
    config,       \* the AnalysisPlan in use
    csv,          \* the source data file
    load_result,  \* LoadResult returned by load_and_filter
    df,           \* the encoded table handed to the analysis functions
    idx,          \* run_confirmatory_tests: position of the for loop
    results,      \* list of ConfirmatoryResult
    raised,       \* the exception that left the operation, if any
    descriptives, \* list of DescriptiveRow
    corr_matrix,  \* the frame returned by compute_correlations
    label_map,    \* outputs._label_map, the module-level label cache
    runs          \* the pipeline runs of the process, each with its locals

\* the state of the label cache and of the later pipeline stages
outputs == <<descriptives, corr_matrix, label_map, runs>>

vars == <<pc, raw, config, csv, load_result, df, idx, results, raised, outputs>>

----------------------------------------------------------------------------
(* Python values *)

\* None / NaN, and a present value: optional values are sequences of length <= 1
None == <<>>
Some(x) == <<x>>

\* a variable the running specification does not use
Unused == <<>>

OutputsUnused ==
    /\ descriptives = Unused
    /\ corr_matrix = Unused
    /\ label_map = Unused
    /\ runs = Unused

RECURSIVE Gcd(_, _)
Gcd(a, b) == IF b = 0 THEN a ELSE Gcd(b, a % b)

\* a float, kept as an exact fraction in lowest terms (den > 0)
Frac(n, d) ==
    LET g == Gcd(IF n < 0 THEN -n ELSE n, d)
    IN  [num |-> n \div g, den |-> d \div g]

FracLe(x, y) == x.num * y.den <= y.num * x.den
FracMul(x, k) == Frac(x.num * k, x.den)
FracDiv(x, k) == Frac(x.num, x.den * k)
FracOne == Frac(1, 1)
FracMin(x, y) == IF FracLe(x, y) THEN x ELSE y
FracMax(x, y) == IF FracLe(x, y) THEN y ELSE x

\* Python truthiness of a float: 0.0 is falsy
Truthy(x) == x.num # 0

\* all sequences over S of length 0..n
SeqsUpTo(S, n) == UNION {[1..k -> S] : k \in 0..n}

RECURSIVE SumSeq(_)
SumSeq(s) == IF s = <<>> THEN 0 ELSE Head(s) + SumSeq(Tail(s))

----------------------------------------------------------------------------
(* Bounds *)

\* most confirmatory tests in a plan
MaxTests == 2
\* most rows of the encoded table
MaxRows == 2
\* scipy p-values are drawn from {0, 1/PGrid, .., 1}
PGrid == 4
\* the Kruskal-Wallis H statistic is drawn from 0..MaxStat
MaxStat == 1

----------------------------------------------------------------------------
(* The encoded table (pandas DataFrame): a set of column names and a list  *)
(* of rows, each a function from the column names to an optional value.    *)

\* values of column c in row order (df[c])
Column(t, c) == [k \in 1..Len(t.rows) |-> t.rows[k][c]]

\* pd.notna / Series.dropna: the present values, unwrapped
RECURSIVE DropNa(_)
DropNa(s) ==
    IF s = <<>> THEN <<>>
    ELSE IF Head(s) = None THEN DropNa(Tail(s))
    ELSE <<Head(s)[1]>> \o DropNa(Tail(s))

RECURSIVE SetToSortedSeq(_)
SetToSortedSeq(S) ==
    IF S = {} THEN <<>>
    ELSE LET m == CHOOSE x \in S : \A y \in S : x <= y
         IN  <<m>> \o SetToSortedSeq(S \ {m})

\* Series.median() of a non-empty list of numbers
Median(vals) ==
    LET s == SortSeq(vals, LAMBDA a, b : a < b)
        n == Len(s)
    IN  IF n % 2 = 1 THEN Frac(s[(n + 1) \div 2], 1)
        ELSE Frac(s[n \div 2] + s[n \div 2 + 1], 2)

\* df.groupby(iv)[dv].apply(list).to_dict(): the keys are the distinct present
\* values of iv in sorted order (rows with a missing key are dropped), each
\* with the dv values of its rows, missing ones included
GroupKeys(t, iv) ==
    SetToSortedSeq({t.rows[k][iv][1] : k \in {j \in 1..Len(t.rows) : t.rows[j][iv] # None}})

GroupValues(t, iv, dv, key) ==
    LET pick == SelectSeq(t.rows, LAMBDA r : r[iv] = Some(key))
    IN  [k \in 1..Len(pick) |-> pick[k][dv]]

----------------------------------------------------------------------------
(* ConfirmatoryResult and the branches of run_confirmatory_tests *)

Note(text, args) == [text |-> text, args |-> args]

ConfirmatoryResult(test_id, dv, iv, statistic, p, p_adj, effect_size, n, note) ==
    [test_id |-> test_id, dv |-> dv, iv |-> iv, statistic |-> statistic, p |-> p,
     p_adj |-> p_adj, effect_size |-> effect_size, n |-> n, note |-> note]

\* variant: the placeholder carries the note of a descriptive result
PlaceholderAsDescriptive(t) ==
    ConfirmatoryResult("none", "N/A", None, None, None, None, None, Len(t.rows),
                       Note("Descriptive only (median)", <<>>))

\* the single result returned when the plan declares no test
Placeholder(t) ==
    ConfirmatoryResult("none", "N/A", None, None, None, None, None, Len(t.rows),
                       Note("No confirmatory tests defined", <<>>))

\* a result without statistics: a skip or a soft failure
NullResult(test, iv, n, note) ==
    ConfirmatoryResult(test.id, test.dv, iv, None, None, None, None, n, note)

\* test_type == "descriptive"
DescriptiveResult(t, test) ==
    IF test.dv \in t.columns
    THEN LET series == DropNa(Column(t, test.dv))
         IN  ConfirmatoryResult(test.id, test.dv, None,
                 IF Len(series) > 0 THEN Some(Median(series)) ELSE None,
                 None, None, None, Len(series),
                 Note("Descriptive only (median)", <<>>))
    ELSE NullResult(test, None, 0, Note("DV column not found: ", <<test.dv>>))

\* `test.iv_grouping and test.iv_grouping in df.columns`
IvPresent(t, test) ==
    /\ test.iv_grouping # None
    /\ test.iv_grouping[1] \in t.columns

\* df.groupby(iv)[dv] raises KeyError when dv is not a column
GroupByRaises(t, test) == IvPresent(t, test) /\ test.dv \notin t.columns

\* an exception: its type, its message, and the identifier the message names
Exception(exc, msg, arg) == [exc |-> exc, msg |-> msg, arg |-> arg]

KeyError(name) == Exception("KeyError", "", name)

\* test_type == "mann_whitney", given scipy's U statistic and p-value
MannWhitneyResult(t, test, min_n, stat, p) ==
    IF IvPresent(t, test)
    THEN LET iv == test.iv_grouping[1]
             group_names == GroupKeys(t, iv)
         IN  IF Len(group_names) = 2
             THEN LET g1 == DropNa(GroupValues(t, iv, test.dv, group_names[1]))
                      g2 == DropNa(GroupValues(t, iv, test.dv, group_names[2]))
                      n1 == Len(g1)
                      n2 == Len(g2)
                  IN  IF n1 >= min_n /\ n2 >= min_n
                      THEN ConfirmatoryResult(test.id, test.dv, test.iv_grouping,
                               Some(Frac(stat, 1)), Some(p), None,
                               Some(Frac(n1 * n2 - 2 * stat, n1 * n2)), n1 + n2,
                               Note("Mann-Whitney U (groups: {} vs {})", group_names))
                      ELSE NullResult(test, test.iv_grouping, n1 + n2,
                               Note("Skipped: group n < ", <<min_n>>))
             ELSE NullResult(test, test.iv_grouping, 0,
                      Note("Mann-Whitney requires exactly 2 groups, found ",
                           <<Len(group_names)>>))
    ELSE NullResult(test, test.iv_grouping, 0, Note("IV column not found", <<>>))

\* whether the Mann-Whitney branch reaches scipy, and the range of U there
MannWhitneySizes(t, test) ==
    LET iv == test.iv_grouping[1]
        group_names == GroupKeys(t, iv)
    IN  <<Len(DropNa(GroupValues(t, iv, test.dv, group_names[1]))),
          Len(DropNa(GroupValues(t, iv, test.dv, group_names[2])))>>

MannWhitneyRuns(t, test, min_n) ==
    /\ IvPresent(t, test)
    /\ test.dv \in t.columns
    /\ Len(GroupKeys(t, test.iv_grouping[1])) = 2
    /\ MannWhitneySizes(t, test)[1] >= min_n
    /\ MannWhitneySizes(t, test)[2] >= min_n

\* the groups a Kruskal-Wallis test keeps: non-missing count >= min_n
ValidGroups(t, test, min_n) ==
    LET iv == test.iv_grouping[1]
        keys == GroupKeys(t, iv)
        all == [k \in 1..Len(keys) |-> DropNa(GroupValues(t, iv, test.dv, keys[k]))]
    IN  SelectSeq(all, LAMBDA g : Len(g) >= min_n)

\* test_type == "kruskal_wallis", given scipy's H statistic and p-value
KruskalWallisResult(t, test, min_n, stat, p) ==
    IF IvPresent(t, test)
    THEN LET valid_groups == ValidGroups(t, test, min_n)
         IN  IF Len(valid_groups) >= 2
             THEN LET total_n == SumSeq([k \in 1..Len(valid_groups) |-> Len(valid_groups[k])])
                      epsilon_sq == IF total_n > 1 THEN Some(Frac(stat, total_n - 1)) ELSE None
                  IN  ConfirmatoryResult(test.id, test.dv, test.iv_grouping,
                          Some(Frac(stat, 1)), Some(p), None,
                          IF epsilon_sq # None /\ Truthy(epsilon_sq[1]) THEN epsilon_sq ELSE None,
                          total_n,
                          Note("Kruskal-Wallis ({} groups)", <<Len(valid_groups)>>))
             ELSE NullResult(test, test.iv_grouping, 0,
                      Note("Skipped: fewer than 2 groups with n >= ", <<min_n>>))
    ELSE NullResult(test, test.iv_grouping, 0, Note("IV column not found", <<>>))

KruskalWallisRuns(t, test, min_n) ==
    /\ IvPresent(t, test)
    /\ test.dv \in t.columns
    /\ Len(ValidGroups(t, test, min_n)) >= 2

\* scipy.stats.kruskal on samples whose pooled values are all the same
\* number: releases that find the tie correction 0 raise ValueError
PooledIdentical(t, test, min_n) ==
    LET valid_groups == ValidGroups(t, test, min_n)
    IN  Cardinality(UNION {{valid_groups[k][j] : j \in 1..Len(valid_groups[k])} :
                              k \in 1..Len(valid_groups)}) <= 1

\* p-values scipy may return
PValues == {Frac(k, PGrid) : k \in 0..PGrid}

----------------------------------------------------------------------------
(* run_confirmatory_tests(df, config): one step per loop iteration *)

\* the call: the placeholder when no test is declared, else the empty list
ConfCall ==
    /\ pc = "conf_call"
    /\ IF config.confirmatory_tests = <<>>
       THEN /\ results' = <<Placeholder(df)>>
            /\ pc' = "conf_returned"
            /\ idx' = idx
       ELSE /\ results' = <<>>
            /\ idx' = 1
            /\ pc' = "conf_loop"
    /\ UNCHANGED outputs
    /\ UNCHANGED <<raw, config, csv, load_result, df, raised>>

InLoop(type) ==
    /\ pc = "conf_loop"
    /\ idx <= Len(config.confirmatory_tests)
    /\ config.confirmatory_tests[idx].test_type = type

Appended(r) ==
    /\ results' = Append(results, r)
    /\ idx' = idx + 1
    /\ UNCHANGED outputs
    /\ UNCHANGED <<pc, raw, config, csv, load_result, df, raised>>

Raise(e) ==
    /\ raised' = Some(e)
    /\ pc' = "conf_raised"
    /\ UNCHANGED outputs
    /\ UNCHANGED <<raw, config, csv, load_result, df, idx, results>>

ConfDescriptive ==
    /\ InLoop("descriptive")
    /\ Appended(DescriptiveResult(df, config.confirmatory_tests[idx]))

ConfMannWhitney ==
    /\ InLoop("mann_whitney")
    /\ LET test == config.confirmatory_tests[idx]
           min_n == config.gating_thresholds.min_group_n
       IN  IF GroupByRaises(df, test) THEN Raise(KeyError(test.dv))
           ELSE IF MannWhitneyRuns(df, test, min_n)
           THEN \E stat \in 0..(MannWhitneySizes(df, test)[1] * MannWhitneySizes(df, test)[2]),
                   p \in PValues :
                    Appended(MannWhitneyResult(df, test, min_n, stat, p))
           ELSE Appended(MannWhitneyResult(df, test, min_n, 0, FracOne))

ConfKruskalWallis ==
    /\ InLoop("kruskal_wallis")
    /\ LET test == config.confirmatory_tests[idx]
           min_n == config.gating_thresholds.min_group_n
       IN  IF GroupByRaises(df, test) THEN Raise(KeyError(test.dv))
           ELSE IF KruskalWallisRuns(df, test, min_n)
           THEN \/ \E stat \in 0..MaxStat, p \in PValues :
                      Appended(KruskalWallisResult(df, test, min_n, stat, p))
                \/ /\ PooledIdentical(df, test, min_n)
                   /\ Raise(Exception("ValueError", "All numbers are identical in kruskal",
                                      test.dv))
           ELSE Appended(KruskalWallisResult(df, test, min_n, 0, FracOne))

ConfReturn ==
    /\ pc = "conf_loop"
    /\ idx > Len(config.confirmatory_tests)
    /\ pc' = "conf_returned"
    /\ UNCHANGED outputs
    /\ UNCHANGED <<raw, config, csv, load_result, df, idx, results, raised>>

----------------------------------------------------------------------------
(* Inputs of run_confirmatory_tests *)

TestIds == <<"t1", "t2", "t3", "t4", "t5", "t6">>

\* dv "q1" and grouping "grp" are columns of the table; "qx" and "gx" are not
TestKinds ==
    {[dv |-> d, iv_grouping |-> None, test_type |-> "descriptive"] : d \in {"q1", "qx"}}
    \cup {[dv |-> d, iv_grouping |-> g, test_type |-> ty] :
            d \in {"q1", "qx"}, g \in {None, Some("grp"), Some("gx")},
            ty \in {"mann_whitney", "kruskal_wallis"}}

TestLists ==
    {[k \in 1..Len(s) |->
        [id |-> TestIds[k], dv |-> s[k].dv, iv_grouping |-> s[k].iv_grouping,
         test_type |-> s[k].test_type]] : s \in SeqsUpTo(TestKinds, MaxTests)}

MinGroupNs == {1}

\* rows of the encoded table: an encoded answer or NaN, a group key or NaN
RowKinds ==
    <<[q1 |-> Some(1), grp |-> Some(1)], [q1 |-> Some(1), grp |-> Some(2)],
      [q1 |-> None, grp |-> Some(1)], [q1 |-> None, grp |-> Some(2)],
      [q1 |-> Some(1), grp |-> None], [q1 |-> None, grp |-> None]>>

\* tables up to row order: the engine reads groups and counts only
ConfTables ==
    {[columns |-> {"q1", "grp"}, rows |-> [k \in 1..Len(s) |-> RowKinds[s[k]]]] :
        s \in {u \in SeqsUpTo(1..Len(RowKinds), MaxRows) :
                 \A k \in 1..(Len(u) - 1) : u[k] <= u[k + 1]}}

InitConf ==
    /\ pc = "conf_call"
    /\ config \in {[confirmatory_tests |-> ts, gating_thresholds |-> [min_group_n |-> m]] :
                     ts \in TestLists, m \in MinGroupNs}
    /\ df \in ConfTables
    /\ idx = 0
    /\ results = <<>>
    /\ raised = None
    /\ raw = Unused
    /\ csv = Unused
    /\ load_result = Unused
    /\ OutputsUnused

NextConf ==
    \/ ConfCall
    \/ ConfDescriptive
    \/ ConfMannWhitney
    \/ ConfKruskalWallis
    \/ ConfReturn

SpecConf == InitConf /\ [][NextConf]_vars

----------------------------------------------------------------------------
(* statsmodels' multipletests(p_values, alpha=q, method=...)[1], as         *)
(* apply_fdr_correction calls it: the corrected p-values, in input order   *)

\* np.argsort: the positions of pvals in ascending order of value
RECURSIVE ArgSortFrom(_, _)
ArgSortFrom(pvals, left) ==
    IF left = {} THEN <<>>
    ELSE LET m == CHOOSE i \in left :
                    \A j \in left : /\ FracLe(pvals[i], pvals[j])
                                    /\ (FracLe(pvals[j], pvals[i]) => i <= j)
         IN  <<m>> \o ArgSortFrom(pvals, left \ {m})

ArgSort(pvals) == ArgSortFrom(pvals, 1..Len(pvals))

\* np.maximum.accumulate
RECURSIVE CumMax(_)
CumMax(s) ==
    IF Len(s) <= 1 THEN s
    ELSE LET front == CumMax(SubSeq(s, 1, Len(s) - 1))
         IN  Append(front, FracMax(front[Len(front)], s[Len(s)]))

\* np.minimum.accumulate(s[::-1])[::-1]
RECURSIVE CumMinFromRight(_)
CumMinFromRight(s) ==
    IF Len(s) <= 1 THEN s
    ELSE LET back == CumMinFromRight(Tail(s))
         IN  <<FracMin(Head(s), back[1])>> \o back

\* the corrected values of ascending p-values, before clipping at 1
CorrectedSorted(sorted, method) ==
    LET ntests == Len(sorted)
    IN  CASE method = "bonferroni" ->
               [k \in 1..ntests |-> FracMul(sorted[k], ntests)]
          [] method = "holm" ->
               CumMax([k \in 1..ntests |-> FracMul(sorted[k], ntests - k + 1)])
          [] method = "fdr_bh" ->
               CumMinFromRight([k \in 1..ntests |-> FracDiv(FracMul(sorted[k], ntests), k)])

\* the corrected values without the reordering back to input order
MultipletestsSorted(pvals, method) ==
    LET sortind == ArgSort(pvals)
        sorted == [k \in 1..Len(pvals) |-> pvals[sortind[k]]]
        corrected == CorrectedSorted(sorted, method)
    IN  [k \in 1..Len(pvals) |-> FracMin(corrected[k], FracOne)]

Multipletests(pvals, method) ==
    LET sortind == ArgSort(pvals)
        clipped == MultipletestsSorted(pvals, method)
    IN  [i \in 1..Len(pvals) |->
            clipped[CHOOSE k \in 1..Len(pvals) : sortind[k] = i]]

----------------------------------------------------------------------------
(* apply_fdr_correction(results, config) *)

method_map(m) ==
    CASE m = "bh" -> "fdr_bh"
      [] m = "bonferroni" -> "bonferroni"
      [] m = "holm" -> "holm"

\* variant: the correction reads a p_adj written before in place of p
RECURSIVE PValuesFromAdjusted(_)
PValuesFromAdjusted(rs) ==
    IF rs = <<>> THEN <<>>
    ELSE IF Head(rs).p # None
    THEN <<IF Head(rs).p_adj # None THEN Head(rs).p_adj[1] ELSE Head(rs).p[1]>>
         \o PValuesFromAdjusted(Tail(rs))
    ELSE PValuesFromAdjusted(Tail(rs))

\* p_values = [r.p for r in results if r.p is not None]
RECURSIVE PValuesOf(_)
PValuesOf(rs) ==
    IF rs = <<>> THEN <<>>
    ELSE IF Head(rs).p # None THEN <<Head(rs).p[1]>> \o PValuesOf(Tail(rs))
    ELSE PValuesOf(Tail(rs))

\* variant: the short-circuit branch returns without writing p_adj
IdentitySkipped(rs) == rs

\* the short-circuit loop: r.p_adj = r.p where r.p is not None
IdentityPass(rs) ==
    [k \in 1..Len(rs) |-> IF rs[k].p # None THEN [rs[k] EXCEPT !.p_adj = rs[k].p] ELSE rs[k]]

\* variant: the corrected value is assigned to r.p
SetPInsteadOfPAdj(r, v) == [r EXCEPT !.p = Some(v)]

\* r.p_adj = float(p_adj[p_idx])
SetPAdj(r, v) == [r EXCEPT !.p_adj = Some(v)]

\* variant: the update loop without `p_idx += 1`
RECURSIVE UpdateStuck(_, _, _)
UpdateStuck(rs, p_adj, p_idx) ==
    IF rs = <<>> THEN <<>>
    ELSE IF Head(rs).p # None
    THEN <<SetPAdj(Head(rs), p_adj[p_idx])>> \o UpdateStuck(Tail(rs), p_adj, p_idx)
    ELSE <<Head(rs)>> \o UpdateStuck(Tail(rs), p_adj, p_idx)

\* the update loop, from position p_idx of the corrected values
RECURSIVE UpdateResults(_, _, _)
UpdateResults(rs, p_adj, p_idx) ==
    IF rs = <<>> THEN <<>>
    ELSE IF Head(rs).p # None
    THEN <<SetPAdj(Head(rs), p_adj[p_idx])>> \o UpdateResults(Tail(rs), p_adj, p_idx + 1)
    ELSE <<Head(rs)>> \o UpdateResults(Tail(rs), p_adj, p_idx)

\* variant: the call asks for the corrected values in sorted order
CorrectedSortedOrder(p_values, cfg) ==
    MultipletestsSorted(p_values, method_map(cfg.fdr_settings.method))

\* the multipletests call of apply_fdr_correction
Corrected(p_values, cfg) ==
    Multipletests(p_values, method_map(cfg.fdr_settings.method))

apply_fdr_correction(rs, cfg) ==
    LET p_values == PValuesOf(rs)
    IN  IF Len(p_values) <= 1 THEN IdentityPass(rs)
        ELSE UpdateResults(rs, Corrected(p_values, cfg), 1)

ApplyFdrCorrection ==
    /\ pc = "fdr_call"
    /\ results' = apply_fdr_correction(results, config)
    /\ pc' = "fdr_returned"
    /\ UNCHANGED outputs
    /\ UNCHANGED <<raw, config, csv, load_result, df, idx, raised>>

----------------------------------------------------------------------------
(* Inputs of apply_fdr_correction: result lists as run_confirmatory_tests  *)
(* builds them (p_adj still None)                                          *)

\* most results in the list handed to apply_fdr_correction
MaxResults == 3

\* two groups of one answer each
SampleTable ==
    [columns |-> {"q1", "grp"},
     rows |-> <<[q1 |-> Some(1), grp |-> Some(1)], [q1 |-> Some(1), grp |-> Some(2)]>>]

SampleTest(id, type, dv) ==
    [id |-> id, dv |-> dv, iv_grouping |-> Some("grp"), test_type |-> type]

\* results of the k-th configured test: without p (a descriptive test, a
\* dv that is no column) and with each p-value (a Mann-Whitney test that ran)
ResultShapes(k) ==
    {DescriptiveResult(SampleTable, SampleTest(TestIds[k], "descriptive", d)) :
        d \in {"q1", "qx"}}
    \cup {MannWhitneyResult(SampleTable, SampleTest(TestIds[k], "mann_whitney", "q1"),
                            1, 1, p) : p \in PValues}

RECURSIVE ResultListsOfLen(_)
ResultListsOfLen(n) ==
    IF n = 0 THEN {<<>>}
    ELSE {Append(rs, r) : rs \in ResultListsOfLen(n - 1), r \in ResultShapes(n)}

ResultLists ==
    {<<Placeholder(SampleTable)>>} \cup UNION {ResultListsOfLen(n) : n \in 1..MaxResults}

FdrSettings ==
    {[q |-> q, method |-> m] : q \in {Frac(1, 20), FracOne}, m \in {"bh", "bonferroni", "holm"}}

InitFdr ==
    /\ pc = "fdr_call"
    /\ results \in ResultLists
    /\ config \in {[fdr_settings |-> f] : f \in FdrSettings}
    /\ idx = 0
    /\ raised = None
    /\ raw = Unused
    /\ csv = Unused
    /\ load_result = Unused
    /\ df = Unused
    /\ OutputsUnused

NextFdr == ApplyFdrCorrection

SpecFdr == InitFdr /\ [][NextFdr]_vars

----------------------------------------------------------------------------
(* Claims about run_confirmatory_tests (SpecConf) *)

ConfDone == pc \in {"conf_returned", "conf_raised"}

\* the returned list maps the configured tests one to one, in order
OneResultPerTest ==
    LET tests == config.confirmatory_tests
    IN  IF tests = <<>>
        THEN results = <<Placeholder(df)>>
        ELSE /\ Len(results) = Len(tests)
             /\ \A k \in 1..Len(tests) : results[k].test_id = tests[k].id

\* the dv column, or the grouping column a group test needs, is not in the table
ColumnAbsent(t, test) ==
    \/ test.dv \notin t.columns
    \/ test.test_type # "descriptive" /\ ~IvPresent(t, test)

\* a soft failure: no statistic, no p, no effect size, and a note
SoftFailure(r) ==
    /\ r.statistic = None
    /\ r.p = None
    /\ r.effect_size = None
    /\ r.note.text # ""

\* C1: for any validated plan and any encoded table, run_confirmatory_tests
\* returns a list with exactly one result per configured test, in
\* configuration order and carrying that test's id, or exactly one
\* placeholder when no test is configured. Violated: a group test whose
\* grouping column is present and whose dv column is not leaves the function
\* with a KeyError, and no list is returned.
C1_OneResultPerTest == ConfDone => (pc = "conf_returned" /\ OneResultPerTest)

\* C1, restricted to the calls that return: there the mapping is one to one
C1_WhenReturned == pc = "conf_returned" => OneResultPerTest

\* C2, restricted to the calls that return: there every test with an absent
\* column is a soft failure
C2_WhenReturned ==
    pc = "conf_returned" =>
        \A k \in 1..Len(config.confirmatory_tests) :
            ColumnAbsent(df, config.confirmatory_tests[k]) =>
                /\ k <= Len(results)
                /\ SoftFailure(results[k])

\* C2: run_confirmatory_tests never raises for a data problem: a test whose
\* dv column or grouping column is absent is reported as a result with null
\* statistic, p and effect size and a note, and the whole batch completes.
\* Violated: df.groupby(iv)[dv] raises KeyError for a mann_whitney or
\* kruskal_wallis test whose dv is no column.
C2_AbsentColumnIsSoftFailure ==
    /\ pc # "conf_raised"
    /\ pc = "conf_returned" =>
          \A k \in 1..Len(config.confirmatory_tests) :
              ColumnAbsent(df, config.confirmatory_tests[k]) =>
                  /\ k <= Len(results)
                  /\ SoftFailure(results[k])

----------------------------------------------------------------------------
(* Claims about apply_fdr_correction (SpecFdr) *)

\* number of results with a p-value among the first k
Rank(rs, k) == Cardinality({j \in 1..k : rs[j].p # None})

\* C3: with more than one non-null raw p-value, every adjusted p-value is
\* at least the raw p-value and at most 1, for bh, bonferroni and holm
C3_AdjustedAtLeastRaw ==
    (pc = "fdr_returned" /\ Len(PValuesOf(results)) > 1) =>
        \A k \in 1..Len(results) :
            results[k].p # None =>
                /\ results[k].p_adj # None
                /\ FracLe(results[k].p[1], results[k].p_adj[1])
                /\ FracLe(results[k].p_adj[1], FracOne)

\* a correction over three p-values that raised one of them strictly
C3_Witness ==
    /\ pc = "fdr_returned"
    /\ Len(PValuesOf(results)) = 3
    /\ \E k \in 1..Len(results) :
          /\ results[k].p # None
          /\ results[k].p_adj # None
          /\ ~FracLe(results[k].p_adj[1], results[k].p[1])
    /\ \E k \in 1..Len(results) :
          /\ results[k].p # None
          /\ results[k].p_adj # None
          /\ ~FracLe(FracOne, results[k].p_adj[1])

\* C4: with zero or one non-null p-value the correction is an identity
\* pass, for every method and q: p_adj = p where p is non-null, and p_adj
\* stays null where p is null
C4_IdentityPass ==
    (pc = "fdr_returned" /\ Len(PValuesOf(results)) <= 1) =>
        \A k \in 1..Len(results) : results[k].p_adj = results[k].p

\* one p-value below 1 between two results without p, under bonferroni
C4_Witness ==
    /\ pc = "fdr_returned"
    /\ config.fdr_settings.method = "bonferroni"
    /\ Len(results) = 3
    /\ results[1].p = None /\ results[1].p_adj = None
    /\ results[2].p = Some(Frac(1, 2)) /\ results[2].p_adj = Some(Frac(1, 2))
    /\ results[3].p = None /\ results[3].p_adj = None

\* C5: the k-th adjusted value, in list order among the non-null p-values,
\* lands on the k-th result that has a p-value, and p_adj is non-null
\* exactly where p is non-null
C5_WriteBackInOrder ==
    pc = "fdr_returned" =>
        LET p_values == PValuesOf(results)
            adjusted == IF Len(p_values) <= 1 THEN p_values
                        ELSE Multipletests(p_values, method_map(config.fdr_settings.method))
        IN  \A k \in 1..Len(results) :
                IF results[k].p = None THEN results[k].p_adj = None
                ELSE results[k].p_adj = Some(adjusted[Rank(results, k)])

\* a result without p between two results whose adjusted values differ
C5_Witness ==
    /\ pc = "fdr_returned"
    /\ Len(results) = 3
    /\ results[1].p # None /\ results[1].p_adj # None
    /\ results[2].p = None /\ results[2].p_adj = None
    /\ results[3].p # None /\ results[3].p_adj # None
    /\ results[1].p_adj # results[3].p_adj
    /\ results[3].p_adj # results[3].p

SameButPAdj(r, s) ==
    /\ r.test_id = s.test_id
    /\ r.dv = s.dv
    /\ r.iv = s.iv
    /\ r.statistic = s.statistic
    /\ r.p = s.p
    /\ r.effect_size = s.effect_size
    /\ r.n = s.n
    /\ r.note = s.note

\* C6: apply_fdr_correction changes only p_adj: the list keeps its length
\* and order, and every other field of every result keeps its value
C6_OnlyPAdjChanges ==
    [][(pc = "fdr_call" /\ pc' = "fdr_returned") =>
          /\ Len(results') = Len(results)
          /\ \A k \in 1..Len(results) : SameButPAdj(results[k], results'[k])]_vars

\* a call that wrote an adjusted value different from the raw p-value
C6_Witness ==
    /\ pc = "fdr_returned"
    /\ \E k \in 1..Len(results) :
          /\ results[k].p # None
          /\ results[k].p_adj # None
          /\ results[k].p_adj # results[k].p
    /\ \E k \in 1..Len(results) : results[k].p = None /\ results[k].statistic # None

----------------------------------------------------------------------------
(* load_and_filter(config, csv_path) *)

Range(s) == {s[k] : k \in 1..Len(s)}

\* the first element of items that is not in cols, if any
RECURSIVE FirstMissing(_, _)
FirstMissing(items, cols) ==
    IF items = <<>> THEN None
    ELSE IF Head(items) \notin cols THEN Some(Head(items))
    ELSE FirstMissing(Tail(items), cols)

\* the texts read_csv and to_numeric parse as numbers; the value of
\* NumericText[k] is k
NumericText == <<"1", "2", "3", "4", "5", "6", "7">>

ToNumeric(text) == CHOOSE k \in 1..Len(NumericText) : NumericText[k] = text

\* df[df[col] == value]: exact equality with the string value of the plan; a
\* missing value equals nothing, and neither does a number
FilterEq(t, col, value) ==
    [t EXCEPT !.rows = SelectSeq(t.rows, LAMBDA r : col \notin t.numeric /\ r[col] = Some(value))]

\* variant: the attention-check column is not checked
AgeColumnCheckOnly(qa, csv_columns) ==
    IF qa.age_column \notin csv_columns
    THEN Some(Exception("ValueError", "age_column missing from CSV: ", qa.age_column))
    ELSE None

\* the check of the two QA columns: the error it raises, if any
QaColumnCheck(qa, csv_columns) ==
    IF qa.age_column \notin csv_columns
    THEN Some(Exception("ValueError", "age_column missing from CSV: ", qa.age_column))
    ELSE IF qa.attention_check_column \notin csv_columns
    THEN Some(Exception("ValueError", "attention_check_column missing from CSV: ",
                        qa.attention_check_column))
    ELSE None

\* variant: the attention filter reads the table as loaded
AttentionInputUnfiltered(loaded, after_age) == loaded

\* the table the attention filter reads: the table left by the age filter
AttentionInput(loaded, after_age) == after_age

LoadResult(t, n_total, n_after_age, n_after_attention, ignored_columns) ==
    [df |-> t, n_total |-> n_total, n_after_age |-> n_after_age,
     n_after_attention |-> n_after_attention, ignored_columns |-> ignored_columns]

Returns(v) == [ok |-> TRUE, value |-> v]
Raises(e) == [ok |-> FALSE, value |-> e]

\* the body after the column checks; indexing a column that does not exist
\* raises KeyError
FilterAndCount(cfg, loaded) ==
    LET qa == cfg.qa_filters
        items_set == Range(cfg.items_universe)
        qa_columns == {qa.age_column, qa.attention_check_column}
    IN  IF qa.age_column \notin loaded.columns THEN Raises(KeyError(qa.age_column))
        ELSE LET after_age == FilterEq(loaded, qa.age_column, qa.age_keep_value)
             IN  IF qa.attention_check_column \notin loaded.columns
                 THEN Raises(KeyError(qa.attention_check_column))
                 ELSE LET after_attention ==
                              FilterEq(AttentionInput(loaded, after_age),
                                       qa.attention_check_column, qa.attention_check_expected)
                      IN  Returns(LoadResult(after_attention, Len(loaded.rows),
                                             Len(after_age.rows), Len(after_attention.rows),
                                             SelectSeq(loaded.order,
                                                 LAMBDA col : /\ col \notin items_set
                                                              /\ col \notin qa_columns)))

\* pd.read_csv: the table of the file; order keeps the header's column order.
\* A column whose present cells all parse as numbers gets a numeric dtype
\* and numbers for cells; any other column keeps its texts.
ReadCsv(file) ==
    LET columns == Range(file.columns)
        numeric == {c \in columns : \A k \in 1..Len(file.rows) :
                       \/ file.rows[k][c] = None
                       \/ file.rows[k][c][1] \in Range(NumericText)}
    IN  [columns |-> columns, order |-> file.columns, numeric |-> numeric,
         rows |-> [k \in 1..Len(file.rows) |->
                     [c \in columns |->
                         IF c \in numeric /\ file.rows[k][c] # None
                         THEN Some(ToNumeric(file.rows[k][c][1]))
                         ELSE file.rows[k][c]]]]

load_and_filter(cfg, file) ==
    IF ~file.exists
    THEN Raises(Exception("FileNotFoundError", "CSV file not found: ", file.path))
    ELSE LET loaded == ReadCsv(file)
             csv_columns == loaded.columns
             missing == FirstMissing(cfg.items_universe, csv_columns)
         IN  IF missing # None
             THEN Raises(Exception("ValueError", "items_universe column missing from CSV: ",
                                   missing[1]))
             ELSE IF QaColumnCheck(cfg.qa_filters, csv_columns) # None
             THEN Raises(QaColumnCheck(cfg.qa_filters, csv_columns)[1])
             ELSE FilterAndCount(cfg, loaded)

LoadAndFilter ==
    /\ pc = "load_call"
    /\ LET out == load_and_filter(config, csv)
       IN  IF out.ok
           THEN /\ load_result' = Some(out.value)
                /\ pc' = "load_returned"
                /\ raised' = raised
           ELSE /\ raised' = Some(out.value)
                /\ pc' = "load_raised"
                /\ load_result' = load_result
    /\ UNCHANGED outputs
    /\ UNCHANGED <<raw, config, csv, df, idx, results>>

----------------------------------------------------------------------------
(* Inputs of load_and_filter *)

\* most rows of the source file
MaxCsvRows == 2

\* the columns a source file may hold, in header order
AllCsvColumns == <<"ts", "age", "att", "q1", "q2">>

\* the values a column may hold
CellValues(col) ==
    CASE col = "age" -> {Some("18+"), Some("<18"), None}
      [] col = "att" -> {Some("ok"), Some("bad"), Some("3"), None}
      [] col = "ts" -> {Some("2026-01-01")}
      [] OTHER -> {Some("3")}

RowsOver(cols) ==
    {r \in [cols -> UNION {CellValues(c) : c \in cols}] :
        \A c \in cols : r[c] \in CellValues(c)}

CsvFiles ==
    {[exists |-> FALSE, path |-> "csv_path", columns |-> <<>>, rows |-> <<>>]}
    \cup UNION {{[exists |-> TRUE, path |-> "csv_path",
                  columns |-> SelectSeq(AllCsvColumns, LAMBDA c : c \in cols),
                  rows |-> rows] : rows \in SeqsUpTo(RowsOver(cols), MaxCsvRows)} :
                cols \in SUBSET Range(AllCsvColumns)}

LoadPlans ==
    {[items_universe |-> u,
      qa_filters |-> [age_column |-> "age", age_keep_value |-> "18+",
                      attention_check_column |-> "att",
                      attention_check_expected |-> expected]] :
        u \in {<<"q1">>, <<"q1", "q2">>}, expected \in {"ok", "3"}}

InitLoad ==
    /\ pc = "load_call"
    /\ config \in LoadPlans
    /\ csv \in CsvFiles
    /\ load_result = None
    /\ raised = None
    /\ idx = 0
    /\ results = <<>>
    /\ raw = Unused
    /\ df = Unused
    /\ OutputsUnused

NextLoad == LoadAndFilter

SpecLoad == InitLoad /\ [][NextLoad]_vars

----------------------------------------------------------------------------
(* Claims about load_and_filter (SpecLoad) *)

\* C7: whenever load_and_filter succeeds, n_total >= n_after_age >=
\* n_after_attention, and n_after_attention is the number of rows of the
\* returned table
C7_RowCountsMonotone ==
    pc = "load_returned" =>
        LET r == load_result[1]
        IN  /\ r.n_total >= r.n_after_age
            /\ r.n_after_age >= r.n_after_attention
            /\ r.n_after_attention = Len(r.df.rows)

\* a load of two rows where each filter removed one of them
C7_Witness ==
    /\ pc = "load_returned"
    /\ Len(csv.rows) = 2
    /\ csv.rows[1].age = Some("<18") /\ csv.rows[1].att = Some("ok")
    /\ csv.rows[2].age = Some("18+") /\ csv.rows[2].att = Some("bad")
    /\ load_result[1].n_total = 2
    /\ load_result[1].n_after_age = 1
    /\ load_result[1].n_after_attention = 0

\* the identifiers load_and_filter requires among the source columns
RequiredColumns ==
    Range(config.items_universe)
        \cup {config.qa_filters.age_column, config.qa_filters.attention_check_column}

\* C8: load_and_filter raises, and produces no LoadResult, when the file
\* does not exist or a universe item, the age column or the attention-check
\* column is not a source column; the error comes from the column check,
\* before any filter reads the table, and names a missing identifier
C8_HardFailure ==
    pc \in {"load_returned", "load_raised"} =>
        /\ ~csv.exists =>
              /\ pc = "load_raised"
              /\ load_result = None
              /\ raised[1].exc = "FileNotFoundError"
        /\ (csv.exists /\ RequiredColumns \ Range(csv.columns) # {}) =>
              /\ pc = "load_raised"
              /\ load_result = None
              /\ raised[1].exc = "ValueError"
              /\ raised[1].arg \in RequiredColumns \ Range(csv.columns)

\* a file with rows that lacks only the attention-check column
C8_Witness ==
    /\ pc = "load_raised"
    /\ csv.exists
    /\ Len(csv.rows) > 0
    /\ RequiredColumns \ Range(csv.columns) = {config.qa_filters.attention_check_column}
    /\ raised[1].arg = config.qa_filters.attention_check_column

----------------------------------------------------------------------------
(* AnalysisPlan.model_validate(raw): pydantic validates every field and    *)
(* collects the field errors; only when there is none does it run the      *)
(* model validators, in definition order, and the first one that raises    *)
(* ends the validation with its error alone.                               *)

ValidationError(loc, msg, arg) == [loc |-> loc, msg |-> msg, arg |-> arg]

\* Field(min_length=1) on a list
TooShort(loc, list) ==
    IF Len(list) < 1 THEN <<ValidationError(loc, "List should have at least 1 item", "")>>
    ELSE <<>>

\* ChartConfig.validate_chart_id, for every chart of the list
RECURSIVE ChartIdErrors(_)
ChartIdErrors(charts) ==
    IF charts = <<>> THEN <<>>
    ELSE (IF Head(charts).prefix \notin {"A_", "B_", "C_"}
          THEN <<ValidationError("charts", "Chart id must start with A_, B_, or C_: ",
                                 Head(charts).id)>>
          ELSE <<>>) \o ChartIdErrors(Tail(charts))

\* Field(default_factory=list): the value of a list field left out of the document
WithDefault(field) == IF field = None THEN <<>> ELSE field[1]

\* variant: CorrelationsConfig without validate_items_explicit
CorrelationsScopeOnly(c) ==
    IF c.scope \notin {"all_items", "indices_only", "indices_and_items"}
    THEN <<ValidationError("correlations.scope",
               "Input should be 'all_items', 'indices_only' or 'indices_and_items'", c.scope)>>
    ELSE <<>>

\* CorrelationsConfig: the scope literal, then validate_items_explicit
CorrelationsErrors(c) ==
    IF c.scope \notin {"all_items", "indices_only", "indices_and_items"}
    THEN <<ValidationError("correlations.scope",
               "Input should be 'all_items', 'indices_only' or 'indices_and_items'", c.scope)>>
    ELSE IF c.scope = "indices_and_items" /\ WithDefault(c.items_explicit) = <<>>
    THEN <<ValidationError("correlations",
               "items_explicit required when scope='indices_and_items'", "")>>
    ELSE <<>>

\* the errors of the fields of AnalysisPlan, in field order
FieldErrors(doc) ==
    TooShort("items_universe", doc.items_universe)
        \o CorrelationsErrors(doc.correlations)
        \o TooShort("charts", doc.charts)
        \o ChartIdErrors(doc.charts)

\* the first element of items outside the universe, if any
FirstOutside(items, universe_set) == FirstMissing(items, universe_set)

\* AnalysisPlan.validate_item_labels_subset
validate_item_labels_subset(doc) ==
    LET key == FirstOutside(doc.item_labels, Range(doc.items_universe))
    IN  IF key # None
        THEN Some(ValidationError("", "item_labels key not in items_universe: ", key[1]))
        ELSE None

\* AnalysisPlan.validate_chart_items
RECURSIVE ChartItemsError(_, _)
ChartItemsError(charts, universe_set) ==
    IF charts = <<>> THEN None
    ELSE LET item == FirstOutside(Head(charts).items, universe_set)
         IN  IF item # None
             THEN Some(ValidationError("", "Chart item not in items_universe: ", item[1]))
             ELSE ChartItemsError(Tail(charts), universe_set)

validate_chart_items(doc) == ChartItemsError(doc.charts, Range(doc.items_universe))

\* variant: reverse_items are not checked
RECURSIVE IndexItemsErrorNoReverse(_, _)
IndexItemsErrorNoReverse(indices, universe_set) ==
    IF indices = <<>> THEN None
    ELSE LET index == Head(indices)
             item == FirstOutside(index.items, universe_set)
         IN  IF index.items = <<>>
             THEN Some(ValidationError("", "Index must have at least one item", index.id))
             ELSE IF item # None
             THEN Some(ValidationError("", "Index item not in items_universe: ", item[1]))
             ELSE IndexItemsErrorNoReverse(Tail(indices), universe_set)

\* AnalysisPlan.validate_index_items
RECURSIVE IndexItemsError(_, _)
IndexItemsError(indices, universe_set) ==
    IF indices = <<>> THEN None
    ELSE LET index == Head(indices)
             item == FirstOutside(index.items, universe_set)
             reverse_item == FirstOutside(index.reverse_items, universe_set)
         IN  IF index.items = <<>>
             THEN Some(ValidationError("", "Index must have at least one item", index.id))
             ELSE IF item # None
             THEN Some(ValidationError("", "Index item not in items_universe: ", item[1]))
             ELSE IF reverse_item # None
             THEN Some(ValidationError("", "Index reverse_item not in items_universe: ",
                                       reverse_item[1]))
             ELSE IndexItemsError(Tail(indices), universe_set)

validate_index_items(doc) == IndexItemsError(doc.indices, Range(doc.items_universe))

\* the model validators in definition order: the error of the first that raises
ModelErrors(doc) ==
    IF validate_item_labels_subset(doc) # None THEN validate_item_labels_subset(doc)
    ELSE IF validate_chart_items(doc) # None THEN validate_chart_items(doc)
    ELSE IF validate_index_items(doc) # None THEN validate_index_items(doc)
    ELSE <<>>

\* the errors of the ValidationError model_validate raises; none when valid
model_validate(doc) ==
    IF FieldErrors(doc) # <<>> THEN FieldErrors(doc) ELSE ModelErrors(doc)

\* the AnalysisPlan built from a valid document: defaults filled in
AnalysisPlan(doc) ==
    [doc EXCEPT !.correlations.items_explicit = WithDefault(@)]

ModelValidate ==
    /\ pc = "schema_call"
    /\ LET errors == model_validate(raw)
       IN  IF errors = <<>>
           THEN /\ config' = Some(AnalysisPlan(raw))
                /\ pc' = "schema_valid"
                /\ raised' = raised
           ELSE /\ raised' = errors
                /\ pc' = "schema_invalid"
                /\ config' = config
    /\ UNCHANGED outputs
    /\ UNCHANGED <<raw, csv, load_result, df, idx, results>>

----------------------------------------------------------------------------
(* Inputs of model_validate: raw plan documents *)

\* longest items_universe of a raw plan
MaxUniverse == 2

Items == {"a", "b"}

\* item_labels: the keys of the mapping, in document order
LabelKeys == {<<>>, <<"a">>, <<"b">>, <<"a", "b">>, <<"b", "a">>}

ChartKinds ==
    {[id |-> "A_chart", prefix |-> "A_", items |-> <<"a">>],
     [id |-> "A_chart", prefix |-> "A_", items |-> <<"a", "b">>],
     [id |-> "X_chart", prefix |-> "X_", items |-> <<"a">>]}

IndexKinds ==
    {[id |-> "index", items |-> <<>>, reverse_items |-> <<>>],
     [id |-> "index", items |-> <<"a">>, reverse_items |-> <<>>],
     [id |-> "index", items |-> <<"b">>, reverse_items |-> <<>>],
     [id |-> "index", items |-> <<"a">>, reverse_items |-> <<"b">>]}

\* items_explicit is None when the document leaves the key out
CorrelationsKinds ==
    {[scope |-> "all_items", items_explicit |-> None],
     [scope |-> "all_items", items_explicit |-> Some(<<>>)],
     [scope |-> "indices_only", items_explicit |-> Some(<<>>)],
     [scope |-> "indices_only", items_explicit |-> Some(<<"b">>)],
     [scope |-> "indices_and_items", items_explicit |-> None],
     [scope |-> "indices_and_items", items_explicit |-> Some(<<>>)],
     [scope |-> "indices_and_items", items_explicit |-> Some(<<"a">>)],
     [scope |-> "indices_and_items", items_explicit |-> Some(<<"a", "b">>)],
     [scope |-> "invalid_scope", items_explicit |-> Some(<<"a">>)]}

\* confirmatory_tests of a document: none, or one test on item a or on item b
TestDocs ==
    {<<>>} \cup {<<[id |-> "t1", dv |-> dv, iv_grouping |-> None,
                    test_type |-> "descriptive"]>> : dv \in Items}

\* the documents with an items_universe of at most n entries
RawPlans(n) ==
    {[items_universe |-> u, item_labels |-> l, charts |-> c, indices |-> i,
      correlations |-> r, confirmatory_tests |-> t] :
        u \in SeqsUpTo(Items, n), l \in LabelKeys,
        c \in SeqsUpTo(ChartKinds, 2), i \in SeqsUpTo(IndexKinds, 2),
        r \in CorrelationsKinds, t \in TestDocs}

InitSchema ==
    /\ pc = "schema_call"
    /\ raw \in RawPlans(MaxUniverse)
    /\ config = None
    /\ raised = <<>>
    /\ idx = 0
    /\ results = <<>>
    /\ csv = Unused
    /\ load_result = Unused
    /\ df = Unused
    /\ OutputsUnused

NextSchema == ModelValidate

SpecSchema == InitSchema /\ [][NextSchema]_vars

----------------------------------------------------------------------------
(* Claims about plan validation (SpecSchema) *)

SchemaDone == pc \in {"schema_valid", "schema_invalid"}

Universe == Range(raw.items_universe)

LabelKeyOutside == \E k \in Range(raw.item_labels) : k \notin Universe

ChartItemOutside ==
    \E c \in Range(raw.charts) : \E item \in Range(c.items) : item \notin Universe

IndexItemOutside ==
    \E i \in Range(raw.indices) : \E item \in Range(i.items) : item \notin Universe

ReverseItemOutside ==
    \E i \in Range(raw.indices) : \E item \in Range(i.reverse_items) : item \notin Universe

IndexWithoutItems == \E i \in Range(raw.indices) : i.items = <<>>

\* the messages of the three cross-reference validators of AnalysisPlan
CrossReferenceMessages ==
    {"item_labels key not in items_universe: ", "Chart item not in items_universe: ",
     "Index must have at least one item", "Index item not in items_universe: ",
     "Index reverse_item not in items_universe: "}

\* C9: a plan is rejected when an item_labels key, a chart item, an index
\* item or an index reverse_item is outside items_universe, each on its own,
\* and when an index has no items; a plan with none of these is not rejected
\* by these checks
C9_CrossReferencesChecked ==
    SchemaDone =>
        /\ LabelKeyOutside => pc = "schema_invalid"
        /\ ChartItemOutside => pc = "schema_invalid"
        /\ IndexItemOutside => pc = "schema_invalid"
        /\ ReverseItemOutside => pc = "schema_invalid"
        /\ IndexWithoutItems => pc = "schema_invalid"
        /\ ~(LabelKeyOutside \/ ChartItemOutside \/ IndexItemOutside
               \/ ReverseItemOutside \/ IndexWithoutItems) =>
              \A k \in 1..Len(raised) : raised[k].msg \notin CrossReferenceMessages

\* a plan whose only fault is a reverse_item outside the universe, rejected
\* with that item named
C9_Witness ==
    /\ pc = "schema_invalid"
    /\ ReverseItemOutside
    /\ ~(LabelKeyOutside \/ ChartItemOutside \/ IndexItemOutside \/ IndexWithoutItems)
    /\ raised = <<ValidationError("", "Index reverse_item not in items_universe: ", "b")>>

NoDuplicates(list) ==
    \A j, k \in 1..Len(list) : list[j] = list[k] => j = k

\* C10: validation fails unless items_universe is a non-empty list of
\* unique identifiers. Violated: a plan that names the same identifier twice
\* is accepted, since the schema only asks for a list of at least one item.
C10_UniverseNonEmptyUnique ==
    pc = "schema_valid" =>
        /\ Len(raw.items_universe) >= 1
        /\ NoDuplicates(raw.items_universe)

\* C10, the half the schema enforces: an empty items_universe is rejected
C10_EmptyUniverseRejected == SchemaDone /\ raw.items_universe = <<>> => pc = "schema_invalid"

ExplicitItemOutside ==
    \E item \in Range(WithDefault(raw.correlations.items_explicit)) : item \notin Universe

DvOutside == \E t \in Range(raw.confirmatory_tests) : t.dv \notin Universe

\* C11: a plan whose correlations.items_explicit holds an identifier outside
\* items_universe, or whose confirmatory test names a dv outside
\* items_universe, fails validation. Violated: no validator of the schema
\* looks at items_explicit or at dv, so such plans are accepted.
C11_ClosedUniverse ==
    SchemaDone =>
        /\ ExplicitItemOutside => pc = "schema_invalid"
        /\ DvOutside => pc = "schema_invalid"

\* the cross-references the schema does check are closed: an accepted plan
\* has no label key, chart item, index item or reverse item outside the universe
C11_CheckedReferencesClosed ==
    pc = "schema_valid" =>
        ~(LabelKeyOutside \/ ChartItemOutside \/ IndexItemOutside \/ ReverseItemOutside)

Reported(msg) == \E k \in 1..Len(raised) : raised[k].msg = msg

\* C12: when a plan violates several invariants at once, the validation
\* error reports every violation found. Violated: the model validators run
\* one after another and the first that raises ends validation, and none
\* runs when a field is invalid, so one violation hides the others.
C12_AllViolationsReported ==
    pc = "schema_invalid" =>
        /\ LabelKeyOutside => Reported("item_labels key not in items_universe: ")
        /\ ChartItemOutside => Reported("Chart item not in items_universe: ")
        /\ IndexItemOutside => Reported("Index item not in items_universe: ")

\* a plan with a label key, a chart item and an index item outside the
\* universe is rejected with the label key as the only error
C12_OnlyFirstReported ==
    /\ pc = "schema_invalid"
    /\ LabelKeyOutside /\ ChartItemOutside /\ IndexItemOutside
    /\ FieldErrors(raw) = <<>>
    => /\ Len(raised) = 1
       /\ raised[1].msg = "item_labels key not in items_universe: "

CorrelationsLocs == {"correlations", "correlations.scope"}

CorrelationsRejected == \E k \in 1..Len(raised) : raised[k].loc \in CorrelationsLocs

\* C13: correlations.scope is accepted only from all_items, indices_only and
\* indices_and_items; with indices_and_items an empty or absent items_explicit
\* is rejected; with the other two scopes an empty or absent items_explicit
\* is accepted, as is a non-empty list with any of the three scopes
C13_ScopeAndExplicitItems ==
    SchemaDone =>
        LET c == raw.correlations
            explicit == WithDefault(c.items_explicit)
        IN  /\ c.scope \notin {"all_items", "indices_only", "indices_and_items"} =>
                  /\ pc = "schema_invalid"
                  /\ \E k \in 1..Len(raised) : raised[k].loc = "correlations.scope"
            /\ c.scope = "indices_and_items" /\ explicit = <<>> =>
                  /\ pc = "schema_invalid"
                  /\ Reported("items_explicit required when scope='indices_and_items'")
            /\ c.scope \in {"all_items", "indices_only"} => ~CorrelationsRejected
            /\ c.scope = "indices_and_items" /\ explicit # <<>> => ~CorrelationsRejected

\* a plan that leaves items_explicit out under indices_and_items, rejected
\* for that reason alone
C13_Witness ==
    /\ pc = "schema_invalid"
    /\ raw.correlations = [scope |-> "indices_and_items", items_explicit |-> None]
    /\ raised = <<ValidationError("correlations",
                     "items_explicit required when scope='indices_and_items'", "")>>

----------------------------------------------------------------------------
(* encode_likert(df, items)                                                *)

\* the two lexicons; the code of lexicon[k] is k. The Polish diacritics of
\* the source strings are written without their marks.
LIKERT_AGREE_MAP ==
    <<"Zdecydowanie sie nie zgadzam", "Raczej sie nie zgadzam", "Ani tak, ani nie",
      "Raczej sie zgadzam", "Zdecydowanie sie zgadzam">>

LIKERT_DEGREE_MAP ==
    <<"Wcale", "W malym stopniu", "W umiarkowanym stopniu", "W duzym stopniu",
      "W bardzo duzym stopniu">>

\* pd.to_numeric(series, errors="coerce") on one cell
ToNumericCell(cell) ==
    IF cell # None /\ cell[1] \in Range(NumericText) THEN Some(ToNumeric(cell[1])) ELSE None

\* series.map(lexicon) on one cell
MapCell(cell, lexicon) ==
    IF cell # None /\ cell[1] \in Range(lexicon)
    THEN Some(CHOOSE k \in 1..Len(lexicon) : lexicon[k] = cell[1])
    ELSE None

\* series.notna().sum()
NotNaSum(series) == Cardinality({k \in 1..Len(series) : series[k] # None})

\* variant: the degree lexicon is tried at half coverage too
MappedSeriesAtHalf(series) ==
    LET agree == [k \in 1..Len(series) |-> MapCell(series[k], LIKERT_AGREE_MAP)]
        degree == [k \in 1..Len(series) |-> MapCell(series[k], LIKERT_DEGREE_MAP)]
    IN  IF 2 * NotNaSum(agree) <= NotNaSum(series) THEN degree ELSE agree

\* the lexicon mapping of a text column: the agree mapping, replaced by the
\* degree mapping when fewer than half of the present values mapped
MappedSeries(series) ==
    LET agree == [k \in 1..Len(series) |-> MapCell(series[k], LIKERT_AGREE_MAP)]
        degree == [k \in 1..Len(series) |-> MapCell(series[k], LIKERT_DEGREE_MAP)]
    IN  IF 2 * NotNaSum(agree) < NotNaSum(series) THEN degree ELSE agree

\* variant: a cell that does not parse as a number is looked up in the lexicons
EncodeColumnCellwise(t, col) ==
    IF col \notin t.columns \/ col \in t.numeric THEN t
    ELSE LET series == Column(t, col)
             mapped == MappedSeries(series)
             encoded == [k \in 1..Len(series) |->
                            IF ToNumericCell(series[k]) # None
                            THEN ToNumericCell(series[k]) ELSE mapped[k]]
         IN  [t EXCEPT !.rows = [k \in 1..Len(t.rows) |->
                                    [t.rows[k] EXCEPT ![col] = encoded[k]]],
                       !.numeric = @ \cup {col}]

\* one iteration of the loop over items
EncodeColumn(t, col) ==
    IF col \notin t.columns \/ col \in t.numeric THEN t
    ELSE LET series == Column(t, col)
             numeric == [k \in 1..Len(series) |-> ToNumericCell(series[k])]
             encoded == IF NotNaSum(numeric) > 0 THEN numeric ELSE MappedSeries(series)
         IN  [t EXCEPT !.rows = [k \in 1..Len(t.rows) |->
                                    [t.rows[k] EXCEPT ![col] = encoded[k]]],
                       !.numeric = @ \cup {col}]

RECURSIVE encode_likert(_, _)
encode_likert(t, items) ==
    IF items = <<>> THEN t
    ELSE encode_likert(EncodeColumn(t, Head(items)), Tail(items))

\* run_pipeline: df = encode_likert(load_result.df, config.items_universe)
EncodeLikert ==
    /\ pc = "load_returned"
    /\ df' = encode_likert(load_result[1].df, config.items_universe)
    /\ pc' = "encoded"
    /\ UNCHANGED <<raw, config, csv, load_result, idx, results, raised, outputs>>

----------------------------------------------------------------------------
(* compute_descriptives(df, items, flag_threshold)                         *)

FracAdd(x, y) == Frac(x.num * y.den + y.num * x.den, x.den * y.den)

\* value_counts: the number of entries of vals equal to v
ValueCount(vals, v) == Cardinality({k \in 1..Len(vals) : vals[k] = v})

\* variant: of several most frequent values, the largest
ModeLargestTie(vals) ==
    CHOOSE m \in Range(vals) :
        \A y \in Range(vals) :
            \/ ValueCount(vals, m) > ValueCount(vals, y)
            \/ ValueCount(vals, m) = ValueCount(vals, y) /\ m >= y

\* valid.mode().iloc[0]: the modes come sorted, the first is the smallest
Mode(vals) ==
    CHOOSE m \in Range(vals) :
        \A y \in Range(vals) :
            \/ ValueCount(vals, m) > ValueCount(vals, y)
            \/ ValueCount(vals, m) = ValueCount(vals, y) /\ m <= y

\* variant: an item is flagged when missing_pct reaches the threshold
DescriptiveRowFlagAtThreshold(t, item, flag_threshold) ==
    LET valid == DropNa(Column(t, item))
        n == Len(valid)
        total_n == Len(t.rows)
        missing_pct == IF total_n > 0 THEN Frac(total_n - n, total_n) ELSE Frac(0, 1)
        pct(level) == IF n > 0 THEN Frac(ValueCount(valid, level), n) ELSE Frac(0, 1)
    IN  [item_id |-> item, n |-> n, missing_pct |-> missing_pct,
         median |-> IF n > 0 THEN Some(Median(valid)) ELSE None,
         mode |-> IF n > 0 THEN Some(Mode(valid)) ELSE None,
         pct_1 |-> pct(1), pct_2 |-> pct(2), pct_3 |-> pct(3), pct_4 |-> pct(4),
         pct_5 |-> pct(5),
         flagged_missingness |-> FracLe(flag_threshold, missing_pct)]

\* the DescriptiveRow of one item; a median of NaN is None
DescriptiveRow(t, item, flag_threshold) ==
    LET valid == DropNa(Column(t, item))
        n == Len(valid)
        total_n == Len(t.rows)
        missing_pct == IF total_n > 0 THEN Frac(total_n - n, total_n) ELSE Frac(0, 1)
        pct(level) == IF n > 0 THEN Frac(ValueCount(valid, level), n) ELSE Frac(0, 1)
    IN  [item_id |-> item, n |-> n, missing_pct |-> missing_pct,
         median |-> IF n > 0 THEN Some(Median(valid)) ELSE None,
         mode |-> IF n > 0 THEN Some(Mode(valid)) ELSE None,
         pct_1 |-> pct(1), pct_2 |-> pct(2), pct_3 |-> pct(3), pct_4 |-> pct(4),
         pct_5 |-> pct(5),
         flagged_missingness |-> ~FracLe(missing_pct, flag_threshold)]

\* variant: one row per column of the table that is an item, in table order
DescriptivesInTableOrder(t, items, flag_threshold) ==
    LET cols == SelectSeq(t.order, LAMBDA c : c \in Range(items))
    IN  Returns([k \in 1..Len(cols) |-> DescriptiveRow(t, cols[k], flag_threshold)])

\* the loop over items; df[item] raises KeyError for an item that is no column
compute_descriptives(t, items, flag_threshold) ==
    LET missing == FirstMissing(items, t.columns)
    IN  IF missing # None THEN Raises(KeyError(missing[1]))
        ELSE Returns([k \in 1..Len(items) |-> DescriptiveRow(t, items[k], flag_threshold)])

ComputeDescriptives ==
    /\ pc = "encoded"
    /\ LET out == compute_descriptives(df, config.items_universe,
                                       config.missingness_rules.flag_threshold)
       IN  IF out.ok
           THEN /\ descriptives' = out.value
                /\ pc' = "described"
                /\ raised' = raised
           ELSE /\ raised' = Some(out.value)
                /\ pc' = "desc_raised"
                /\ descriptives' = descriptives
    /\ UNCHANGED <<raw, config, csv, load_result, df, idx, results, corr_matrix,
                   label_map, runs>>

----------------------------------------------------------------------------
(* compute_correlations(df, config)                                        *)

\* variant: every scope resolves to the full universe
ResolvedAsAllItems(cfg) == Returns(cfg.items_universe)

\* the item list of the scope
ResolvedItems(cfg) ==
    LET scope == cfg.correlations.scope
    IN  IF scope = "all_items" THEN Returns(cfg.items_universe)
        ELSE IF scope = "indices_only"
        THEN Returns([k \in 1..Len(cfg.indices) |-> cfg.indices[k].id])
        ELSE IF scope = "indices_and_items" THEN Returns(cfg.correlations.items_explicit)
        ELSE Raises(Exception("ValueError", "Invalid correlations scope: ", scope))

\* pd.DataFrame(): no index, no columns
EmptyFrame == [index |-> <<>>, columns |-> <<>>]

\* a column corr() cannot convert to float: a text column with a present cell
HoldsText(t, col) ==
    col \notin t.numeric /\ \E k \in 1..Len(t.rows) : t.rows[k][col] # None

\* the frame returned, by its labels; the coefficients are pandas' and are
\* not modelled. DataFrame.corr converts the subset to float and raises
\* ValueError on a text value.
compute_correlations(t, cfg) ==
    LET resolved == ResolvedItems(cfg)
    IN  IF ~resolved.ok THEN resolved
        ELSE LET items == resolved.value
                 available_items == SelectSeq(items, LAMBDA item : item \in t.columns)
                 text == SelectSeq(available_items, LAMBDA item : HoldsText(t, item))
             IN  IF items = <<>> THEN Returns(EmptyFrame)
                 ELSE IF available_items = <<>> THEN Returns(EmptyFrame)
                 ELSE IF text # <<>>
                 THEN Raises(Exception("ValueError", "could not convert string to float: ",
                                       text[1]))
                 ELSE Returns([index |-> available_items, columns |-> available_items])

ComputeCorrelations ==
    /\ pc = "described"
    /\ LET out == compute_correlations(df, config)
       IN  IF out.ok
           THEN /\ corr_matrix' = out.value
                /\ pc' = "correlated"
                /\ raised' = raised
           ELSE /\ raised' = Some(out.value)
                /\ pc' = "corr_raised"
                /\ corr_matrix' = corr_matrix
    /\ UNCHANGED <<raw, config, csv, load_result, df, idx, results, descriptives,
                   label_map, runs>>

----------------------------------------------------------------------------
(* Inputs of the pipeline: survey files and valid plans *)

\* the values a column of a survey file may hold
SurveyCells(col) ==
    CASE col = "age" -> {Some("18+"), Some("<18")}
      [] col = "att" -> {Some("ok")}
      [] col = "q1" -> {None, Some("3"), Some("7"), Some("Raczej sie zgadzam"),
                        Some("Wcale"), Some("other")}
      [] col = "q2" -> {None, Some("3")}

SurveyRows(cols) ==
    {r \in [Range(cols) -> UNION {SurveyCells(c) : c \in Range(cols)}] :
        \A c \in Range(cols) : r[c] \in SurveyCells(c)}

\* files of at most n rows with every column, and files without column q2
SurveyFiles(n) ==
    {[exists |-> TRUE, path |-> "csv_path", columns |-> cols, rows |-> rows] :
        cols \in {<<"age", "att", "q1", "q2">>},
        rows \in SeqsUpTo(SurveyRows(<<"age", "att", "q1", "q2">>), n)}
    \cup {[exists |-> TRUE, path |-> "csv_path", columns |-> <<"age", "att", "q1">>,
           rows |-> rows] :
            rows \in SeqsUpTo({r \in SurveyRows(<<"age", "att", "q1">>) :
                                  r["q1"] \in {None, Some("3")}}, 1)}

\* correlations and indices of a plan; index ids are not columns of the file
CorrelationsPlans ==
    {[correlations |-> [scope |-> "all_items", items_explicit |-> <<>>], indices |-> <<>>],
     [correlations |-> [scope |-> "indices_only", items_explicit |-> <<>>], indices |-> <<>>],
     [correlations |-> [scope |-> "indices_only", items_explicit |-> <<>>],
      indices |-> <<[id |-> "index", items |-> <<"q1">>, reverse_items |-> <<>>]>>],
     [correlations |-> [scope |-> "indices_and_items", items_explicit |-> <<"q2", "q1">>],
      indices |-> <<>>],
     [correlations |-> [scope |-> "indices_and_items", items_explicit |-> <<"qx">>],
      indices |-> <<>>],
     [correlations |-> [scope |-> "indices_and_items", items_explicit |-> <<"q1", "age">>],
      indices |-> <<>>]}

\* items_universe of a plan: the schema accepts any non-empty list
SurveyUniverses == {<<"q1">>, <<"q1", "q2">>, <<"q2", "q1">>, <<"q1", "q1">>}

\* a valid plan of the pipeline
PipePlan(u, c, th) ==
    [items_universe |-> u,
     qa_filters |-> [age_column |-> "age", age_keep_value |-> "18+",
                     attention_check_column |-> "att",
                     attention_check_expected |-> "ok"],
     missingness_rules |-> [flag_threshold |-> th],
     correlations |-> c.correlations, indices |-> c.indices]

\* every universe under all_items, every correlations setting and every
\* threshold with the universe q1, q2
PipePlans(universes) ==
    {PipePlan(u, c, Frac(1, 2)) :
        u \in universes, c \in {k \in CorrelationsPlans : k.correlations.scope = "all_items"}}
    \cup {PipePlan(<<"q1", "q2">>, c, Frac(1, 2)) : c \in CorrelationsPlans}
    \cup {PipePlan(<<"q1", "q2">>, c, th) :
            c \in {k \in CorrelationsPlans : k.correlations.scope = "all_items"},
            th \in {Frac(0, 1), Frac(1, 5)}}

InitPipe ==
    /\ pc = "load_call"
    /\ csv \in SurveyFiles(MaxCsvRows)
    /\ config \in PipePlans(SurveyUniverses)
    /\ load_result = None
    /\ raised = None
    /\ df = None
    /\ descriptives = <<>>
    /\ corr_matrix = None
    /\ idx = 0
    /\ results = <<>>
    /\ raw = Unused
    /\ label_map = Unused
    /\ runs = Unused

NextPipe ==
    \/ LoadAndFilter
    \/ EncodeLikert
    \/ ComputeDescriptives
    \/ ComputeCorrelations

SpecPipe == InitPipe /\ [][NextPipe]_vars

----------------------------------------------------------------------------
(* Claims about the descriptive and correlation engines (SpecPipe) *)

Described == pc \in {"described", "correlated", "corr_raised"}

\* C14: for every valid plan and every table the loader and the encoder
\* produce for it, compute_descriptives completes and returns one row per
\* items_universe entry, the k-th row for the k-th entry
C14_OneRowPerUniverseEntry ==
    /\ pc # "desc_raised"
    /\ Described =>
          /\ Len(descriptives) = Len(config.items_universe)
          /\ \A k \in 1..Len(descriptives) :
                descriptives[k].item_id = config.items_universe[k]

\* a universe that is not in sorted order and not in the file's column
\* order, described in universe order
C14_Witness ==
    /\ pc = "described"
    /\ config.items_universe = <<"q2", "q1">>
    /\ Len(df.rows) > 0
    /\ Len(descriptives) = 2
    /\ descriptives[1].item_id = "q2"
    /\ descriptives[2].item_id = "q1"

PctSum(d) == FracAdd(FracAdd(FracAdd(FracAdd(d.pct_1, d.pct_2), d.pct_3), d.pct_4), d.pct_5)

\* C15: for any item with n > 0 the five level proportions sum to 1, for
\* every column the encoder can produce. Violated: a column that is numeric
\* in the source passes the encoder unchanged, so a value outside 1..5 is a
\* valid response that no level counts.
C15_ProportionsSumToOne ==
    Described =>
        \A k \in 1..Len(descriptives) :
            descriptives[k].n > 0 => PctSum(descriptives[k]) = FracOne

\* the proportions do sum to 1 for an item whose encoded values all lie in 1..5
C15_LevelsOnlySumToOne ==
    Described =>
        \A k \in 1..Len(descriptives) :
            LET valid == DropNa(Column(df, descriptives[k].item_id))
            IN  descriptives[k].n > 0 /\ Range(valid) \subseteq 1..5 =>
                    PctSum(descriptives[k]) = FracOne

CorrelationsDone == pc \in {"correlated", "corr_raised"}

\* the item list the scope stands for
ScopeItems ==
    CASE config.correlations.scope = "all_items" -> config.items_universe
      [] config.correlations.scope = "indices_only" ->
            [k \in 1..Len(config.indices) |-> config.indices[k].id]
      [] config.correlations.scope = "indices_and_items" ->
            config.correlations.items_explicit

PresentScopeItems == SelectSeq(ScopeItems, LAMBDA item : item \in df.columns)

\* C17: compute_correlations resolves the item list from the scope, keeps
\* the identifiers that are columns of the encoded table in resolved-list
\* order, and returns an empty matrix without raising when the resolved list
\* is empty or none of its identifiers is a column
C17_ResolvedItemsAndEmptyMatrix ==
    CorrelationsDone =>
        /\ PresentScopeItems = <<>> => pc = "correlated" /\ corr_matrix = EmptyFrame
        /\ pc = "correlated" =>
              /\ corr_matrix.index = PresentScopeItems
              /\ corr_matrix.columns = PresentScopeItems

\* indices_only with no declared index, on a table with rows: an empty matrix
C17_Witness ==
    /\ pc = "correlated"
    /\ config.correlations.scope = "indices_only"
    /\ config.indices = <<>>
    /\ Len(df.rows) > 0
    /\ corr_matrix = EmptyFrame

----------------------------------------------------------------------------
(* run_pipeline: run_confirmatory_tests, then apply_fdr_correction on the  *)
(* list it returned (SpecConfFdr)                                          *)

ConfApplyFdr ==
    /\ pc = "conf_returned"
    /\ results' = apply_fdr_correction(results, config)
    /\ pc' = "conf_corrected"
    /\ UNCHANGED <<raw, config, csv, load_result, df, idx, raised, outputs>>

\* the test lists of SpecConf whose dv is a column of the table, and a test
\* that borrows the placeholder's test_id and dv
PlaceholderLikeTests ==
    {ts \in TestLists : \A k \in 1..Len(ts) : ts[k].dv = "q1"}
    \cup {<<[id |-> "none", dv |-> "N/A", iv_grouping |-> None,
                       test_type |-> ty]>> :
                        ty \in {"descriptive", "mann_whitney", "kruskal_wallis"}}

InitConfFdr ==
    /\ pc = "conf_call"
    /\ df \in ConfTables
    /\ config \in {[confirmatory_tests |-> ts, gating_thresholds |-> [min_group_n |-> m],
                    fdr_settings |-> [q |-> Frac(1, 20), method |-> "bh"]] :
                     ts \in PlaceholderLikeTests, m \in MinGroupNs}
    /\ idx = 0
    /\ results = <<>>
    /\ raised = None
    /\ raw = Unused
    /\ csv = Unused
    /\ load_result = Unused
    /\ OutputsUnused

NextConfFdr ==
    \/ ConfCall
    \/ ConfDescriptive
    \/ ConfMannWhitney
    \/ ConfKruskalWallis
    \/ ConfReturn
    \/ ConfApplyFdr

SpecConfFdr == InitConfFdr /\ [][NextConfFdr]_vars

PlaceholderNote == "No confirmatory tests defined"

\* C16: with no confirmatory test declared the engine returns exactly one
\* placeholder with null statistic, p, p_adj and effect size and the note
\* "No confirmatory tests defined"; its p_adj is still null after the
\* correction; and no result of a configured test carries that note, so
\* none can be taken for the placeholder
C16_PlaceholderDistinct ==
    /\ pc \in {"conf_returned", "conf_corrected"} /\ config.confirmatory_tests = <<>> =>
          /\ Len(results) = 1
          /\ results[1].statistic = None
          /\ results[1].p = None
          /\ results[1].p_adj = None
          /\ results[1].effect_size = None
          /\ results[1].note.text = PlaceholderNote
    /\ config.confirmatory_tests # <<>> =>
          \A k \in 1..Len(results) :
              /\ results[k].note.text # PlaceholderNote
              /\ results[k] # Placeholder(df)

\* the placeholder after the correction, for a table with rows
C16_Witness ==
    /\ pc = "conf_corrected"
    /\ config.confirmatory_tests = <<>>
    /\ Len(df.rows) > 0
    /\ results = <<Placeholder(df)>>

\* a configured test that agrees with the placeholder in every field but the note
C16_LookalikeReached ==
    /\ pc = "conf_corrected"
    /\ config.confirmatory_tests # <<>>
    /\ results = <<[Placeholder(df) EXCEPT !.note = Note("DV column not found: ", <<"N/A">>)]>>

----------------------------------------------------------------------------
(* Item labels (src/src/labels.py). An item is its column name; a label is *)
(* a text, kept as the sequence of its characters so that slicing and      *)
(* suffixing are computed. The ellipsis character is written "...".        *)

LABEL_MAX_CHARS == 28

\* the characters of the item names used below
Chars(item) ==
    CASE item = "A [X]" -> <<"A", " ", "[", "X", "]">>
      [] item = "B [ X ]" -> <<"B", " ", "[", " ", "X", " ", "]">>
      [] item = "C [X (1)]" -> <<"C", " ", "[", "X", " ", "(", "1", ")", "]">>
      [] item = "12. X (opis)" ->
            <<"1", "2", ".", " ", "X", " ", "(", "o", "p", "i", "s", ")">>
      [] item = "Czy wydatki na obronnosc sa za niskie, czy nie" ->
            <<"C", "z", "y", " ", "w", "y", "d", "a", "t", "k", "i", " ", "n", "a", " ",
              "o", "b", "r", "o", "n", "n", "o", "s", "c", " ", "s", "a", " ", "z", "a",
              " ", "n", "i", "s", "k", "i", "e", ",", " ", "c", "z", "y", " ", "n", "i",
              "e">>
      [] item = "q1" -> <<"q", "1">>
      [] item = "q2" -> <<"q", "2">>

\* str.rfind as a position: 0 when ch does not occur
RFind(s, ch) ==
    LET hits == {k \in 1..Len(s) : s[k] = ch}
    IN  IF hits = {} THEN 0 ELSE CHOOSE k \in hits : \A j \in hits : j <= k

\* s[:n]
Take(s, n) == SubSeq(s, 1, IF Len(s) < n THEN Len(s) ELSE n)

RECURSIVE LStrip(_, _)
LStrip(s, chars) ==
    IF s # <<>> /\ Head(s) \in chars THEN LStrip(Tail(s), chars) ELSE s

RECURSIVE RStrip(_, _)
RStrip(s, chars) ==
    IF s # <<>> /\ s[Len(s)] \in chars THEN RStrip(SubSeq(s, 1, Len(s) - 1), chars) ELSE s

\* str.strip()
Strip(s) == RStrip(LStrip(s, {" "}), {" "})

\* re.sub(r"^\d+\.\s*", "", text)
StripNumber(text) ==
    LET rest == LStrip(text, {"0", "1", "2", "3", "4", "5", "6", "7", "8", "9"})
    IN  IF Len(rest) < Len(text) /\ rest # <<>> /\ Head(rest) = "."
        THEN LStrip(Tail(rest), {" "})
        ELSE text

\* re.sub(r"\s*\([^)]*\)", "", text)
RECURSIVE RemoveParens(_)
RemoveParens(text) ==
    IF text = <<>> THEN <<>>
    ELSE LET rest == LStrip(text, {" "})
             closes == {k \in 1..Len(rest) : rest[k] = ")"}
         IN  IF rest # <<>> /\ Head(rest) = "(" /\ closes # {}
             THEN RemoveParens(SubSeq(rest, (CHOOSE k \in closes : \A j \in closes : k <= j) + 1,
                                      Len(rest)))
             ELSE <<Head(text)>> \o RemoveParens(Tail(text))

generate_fallback_label(item) ==
    LET s == Chars(item)
        text == Strip(RemoveParens(StripNumber(Strip(s))))
        truncated == Take(text, LABEL_MAX_CHARS)
        last_space == RFind(truncated, " ") - 1
    IN  IF "[" \in Range(s) /\ "]" \in Range(s)
        THEN Take(Strip(SubSeq(s, RFind(s, "[") + 1, RFind(s, "]") - 1)), LABEL_MAX_CHARS)
        ELSE IF Len(text) <= LABEL_MAX_CHARS THEN text
        ELSE IF last_space > LABEL_MAX_CHARS \div 2
        THEN RStrip(Take(truncated, last_space), {".", ",", ";", ":"}) \o <<"...">>
        ELSE RStrip(truncated, {".", ",", ";", ":"}) \o <<"...">>

\* the distinct entries of a list, in order of first occurrence: the keys of
\* a dict filled from the list
RECURSIVE Keys(_)
Keys(list) ==
    IF list = <<>> THEN <<>>
    ELSE LET init == Keys(SubSeq(list, 1, Len(list) - 1))
             last == list[Len(list)]
         IN  IF last \in Range(init) THEN init ELSE Append(init, last)

\* f" ({i})"
Suffix(i) ==
    <<" ", "(">> \o <<(<<"1", "2", "3", "4", "5", "6", "7", "8", "9">>)[i]>> \o <<")">>

\* _ensure_unique_labels: every item whose label is shared gets the label cut
\* to fit and the suffix of its position among the items sharing it
EnsureUniqueLabels(keys, labels) ==
    [item \in Range(keys) |->
        LET originals == SelectSeq(keys, LAMBDA o : labels[o] = labels[item])
            i == CHOOSE k \in 1..Len(originals) : originals[k] = item
        IN  IF Len(originals) > 1
            THEN Take(labels[item], LABEL_MAX_CHARS - Len(Suffix(i))) \o Suffix(i)
            ELSE labels[item]]

\* the dict returned: its keys in insertion order and the label of each
generate_labels(cfg) ==
    LET keys == Keys(cfg.items_universe)
        labels == [item \in Range(keys) |->
                      IF item \in DOMAIN cfg.item_labels THEN cfg.item_labels[item]
                      ELSE generate_fallback_label(item)]
    IN  [keys |-> keys, label |-> EnsureUniqueLabels(keys, labels)]

\* init_labels: the module-level cache is rebound to the new mapping
InitLabelsCall ==
    /\ pc = "labels_call"
    /\ label_map' = generate_labels(config)
    /\ pc' = "labels_returned"
    /\ UNCHANGED <<raw, config, csv, load_result, df, idx, results, raised,
                   descriptives, corr_matrix, runs>>

----------------------------------------------------------------------------
(* Inputs of init_labels: valid plans (item_labels keys are universe items) *)

\* most entries of items_universe in a labelled plan
MaxLabelItems == 3

LabelItems ==
    {"A [X]", "B [ X ]", "C [X (1)]", "12. X (opis)",
     "Czy wydatki na obronnosc sa za niskie, czy nie"}

\* configured labels: X, X (1), and a label of 30 characters
ConfiguredLabels ==
    {<<"X">>, <<"X", " ", "(", "1", ")">>,
     <<"W", "y", "d", "a", "t", "k", "i", " ", "n", "a", " ", "o", "b", "r", "o", "n",
       "n", "o", "s", "c", " ", "i", " ", "w", "o", "j", "s", "k", "o", "!">>}

\* the plans over a universe: any subset of its items labelled
LabelPlans(universe) ==
    {[items_universe |-> universe, item_labels |-> l] :
        l \in UNION {[keys -> ConfiguredLabels] : keys \in SUBSET Range(universe)}}

InitLabels ==
    /\ pc = "labels_call"
    /\ \E universe \in SeqsUpTo(LabelItems, MaxLabelItems) :
          /\ universe # <<>>
          /\ config \in LabelPlans(universe)
    /\ label_map = [keys |-> <<>>, label |-> <<>>]
    /\ raw = Unused
    /\ csv = Unused
    /\ load_result = Unused
    /\ df = Unused
    /\ idx = 0
    /\ results = <<>>
    /\ raised = None
    /\ descriptives = Unused
    /\ corr_matrix = Unused
    /\ runs = Unused

NextLabels == InitLabelsCall

SpecLabels == InitLabels /\ [][NextLabels]_vars

----------------------------------------------------------------------------
(* Claims about labels (SpecLabels) *)

\* C20: generate_labels returns one label for every items_universe entry and
\* the labels are pairwise distinct. Violated: a suffixed label is not
\* compared with the labels of the other items, so "X", "X" and "X (1)"
\* become "X (1)", "X (2)" and "X (1)".
C20_LabelsUnique ==
    pc = "labels_returned" =>
        /\ \A item \in Range(config.items_universe) : item \in DOMAIN label_map.label
        /\ \A a, b \in DOMAIN label_map.label :
              label_map.label[a] = label_map.label[b] => a = b

\* the half that holds: every items_universe entry has a label, and only those
C20_EveryItemLabelled ==
    pc = "labels_returned" =>
        /\ DOMAIN label_map.label = Range(config.items_universe)
        /\ Range(label_map.keys) = Range(config.items_universe)

\* the fallback labels computed for the item names of the model
C20_FallbackLabels ==
    /\ generate_fallback_label("A [X]") = <<"X">>
    /\ generate_fallback_label("B [ X ]") = <<"X">>
    /\ generate_fallback_label("C [X (1)]") = <<"X", " ", "(", "1", ")">>
    /\ generate_fallback_label("12. X (opis)") = <<"X">>
    /\ generate_fallback_label("Czy wydatki na obronnosc sa za niskie, czy nie") =
          <<"C", "z", "y", " ", "w", "y", "d", "a", "t", "k", "i", " ", "n", "a", " ",
            "o", "b", "r", "o", "n", "n", "o", "s", "c", " ", "s", "a", "...">>
    /\ generate_fallback_label("q1") = <<"q", "1">>

----------------------------------------------------------------------------
(* Pipeline runs sharing one process (src/scripts/run_pipeline.py): every  *)
(* run has its own arguments and locals; outputs._label_map is shared.     *)
(* A run is followed through init_labels, the analysis up to the           *)
(* aggregates, and the label lookups of write_report.                      *)

RunIds == {1, 2}

\* get_label(item, label_map): the configured label, else the fallback
get_label(item, item_labels) ==
    IF item \in DOMAIN item_labels THEN item_labels[item]
    ELSE generate_fallback_label(item)

\* build_aggregates: the items dict keeps one entry per item_id, in order of
\* first insertion, holding the values of the last row with that id
build_aggregates(t, cfg, rows) ==
    LET ids == [k \in 1..Len(rows) |-> rows[k].item_id]
        last(item) == rows[CHOOSE k \in 1..Len(rows) :
                              /\ ids[k] = item
                              /\ \A j \in (k + 1)..Len(rows) : ids[j] # item]
    IN  [n_respondents |-> Len(t.rows),
         n_items |-> Len(cfg.items_universe),
         items |-> [keys |-> Keys(ids),
                    value |-> [item \in Range(ids) |->
                                  [n |-> last(item).n, median |-> last(item).median,
                                   mode |-> last(item).mode,
                                   response_pcts |-> <<last(item).pct_1, last(item).pct_2,
                                                       last(item).pct_3, last(item).pct_4,
                                                       last(item).pct_5>>]]]]

\* variant: the aggregates record the persona of the run
AggregatesWithPersona(r, t, rows) ==
    [persona |-> runs[r].persona, aggregates |-> build_aggregates(t, runs[r].config, rows)]

\* the aggregates of run r
Aggregates(r, t, rows) == build_aggregates(t, runs[r].config, rows)

\* lines 73-102 of a run: load, encode, describe, correlate, aggregate. The
\* plans of the runs declare no confirmatory test.
Analysis(r) ==
    LET cfg == runs[r].config
        loaded == load_and_filter(cfg, csv)
        t == encode_likert(loaded.value.df, cfg.items_universe)
        described == compute_descriptives(t, cfg.items_universe,
                                          cfg.missingness_rules.flag_threshold)
        correlated == compute_correlations(t, cfg)
    IN  IF ~loaded.ok THEN loaded
        ELSE IF ~described.ok THEN described
        ELSE IF ~correlated.ok THEN correlated
        ELSE Returns([descriptives |-> described.value,
                      aggregates |-> Aggregates(r, t, described.value)])

\* labels = init_labels(config, output_dir)
RunInitLabels(r) ==
    /\ runs[r].pc = "init_labels"
    /\ label_map' = generate_labels(runs[r].config)
    /\ runs' = [runs EXCEPT ![r].pc = "analysis"]
    /\ UNCHANGED <<pc, raw, config, csv, load_result, df, idx, results, raised,
                   descriptives, corr_matrix>>

RunAnalysis(r) ==
    /\ runs[r].pc = "analysis"
    /\ LET out == Analysis(r)
       IN  runs' = IF out.ok
                   THEN [runs EXCEPT ![r].pc = "write_report",
                                     ![r].descriptives = out.value.descriptives,
                                     ![r].aggregates = Some(out.value.aggregates)]
                   ELSE [runs EXCEPT ![r].pc = "raised", ![r].raised = Some(out.value)]
    /\ UNCHANGED <<pc, raw, config, csv, load_result, df, idx, results, raised,
                   descriptives, corr_matrix, label_map>>

\* write_report, the row whose label is looked up next
ReportRow(r) == runs[r].descriptives[Len(runs[r].looked_up) + 1]

\* get_item_label, the test `_label_map and item in _label_map`
RunLabelTest(r) ==
    /\ runs[r].pc = "write_report"
    /\ Len(runs[r].looked_up) < Len(runs[r].descriptives)
    /\ runs' = [runs EXCEPT ![r].pc = "get_item_label",
                            ![r].cached = /\ label_map.keys # <<>>
                                          /\ ReportRow(r).item_id \in DOMAIN label_map.label]
    /\ UNCHANGED <<pc, raw, config, csv, load_result, df, idx, results, raised,
                   descriptives, corr_matrix, label_map>>

\* get_item_label, the return: `_label_map[item]` reads the cache again. The
\* label is cut to 40 characters; the row is then formatted, and
\* f"{d.median:.1f}" raises TypeError on the median None of an item with n = 0.
RunLabelReturn(r) ==
    /\ runs[r].pc = "get_item_label"
    /\ LET row == ReportRow(r)
           item == row.item_id
           label == IF runs[r].cached THEN label_map.label[item]
                    ELSE get_label(item, runs[r].config.item_labels)
       IN  runs' = IF runs[r].cached /\ item \notin DOMAIN label_map.label
                   THEN [runs EXCEPT ![r].pc = "get_item_label_raised",
                                     ![r].raised = Some(KeyError(item))]
                   ELSE IF row.median = None
                   THEN [runs EXCEPT ![r].pc = "raised",
                                     ![r].looked_up = Append(@, Take(label, 40)),
                                     ![r].raised = Some(Exception("TypeError", "", item))]
                   ELSE [runs EXCEPT ![r].pc = "write_report",
                                     ![r].looked_up = Append(@, Take(label, 40))]
    /\ UNCHANGED <<pc, raw, config, csv, load_result, df, idx, results, raised,
                   descriptives, corr_matrix, label_map>>

\* write_report writes report.md, opened by the intro of the run's persona
RunReportWritten(r) ==
    /\ runs[r].pc = "write_report"
    /\ Len(runs[r].looked_up) = Len(runs[r].descriptives)
    /\ runs' = [runs EXCEPT ![r].pc = "done",
                            ![r].report_intro =
                                Some(runs[r].config.persona_texts[runs[r].persona].report_intro)]
    /\ UNCHANGED <<pc, raw, config, csv, load_result, df, idx, results, raised,
                   descriptives, corr_matrix, label_map>>

----------------------------------------------------------------------------
(* Inputs of the runs *)

\* a valid plan with the given universe and configured labels
RunPlan(universe, item_labels) ==
    [items_universe |-> universe, item_labels |-> item_labels,
     qa_filters |-> [age_column |-> "age", age_keep_value |-> "18+",
                     attention_check_column |-> "att", attention_check_expected |-> "ok"],
     missingness_rules |-> [flag_threshold |-> Frac(1, 5)],
     correlations |-> [scope |-> "all_items", items_explicit |-> <<>>],
     indices |-> <<>>,
     persona_texts |-> [campaign |-> [report_intro |-> "intro for the campaign"],
                        minfin |-> [report_intro |-> "intro for the ministry"]]]

\* two plans that label q1 differently, and a plan without q1
RunPlans ==
    {RunPlan(<<"q1", "q2">>, [item \in {"q1"} |-> <<"X">>]),
     RunPlan(<<"q1", "q2">>, [item \in {"q1"} |-> <<"Y">>]),
     RunPlan(<<"q2">>, <<>>)}

\* survey files of one row that passes the QA filters
RunFiles ==
    {f \in SurveyFiles(1) : Len(f.rows) = 1 /\ f.rows[1]["age"] = Some("18+")}

InitRuns ==
    /\ csv \in RunFiles
    /\ runs \in [RunIds -> {[pc |-> "init_labels", config |-> cfg, persona |-> persona,
                             descriptives |-> <<>>, aggregates |-> None, cached |-> FALSE,
                             looked_up |-> <<>>, report_intro |-> None, raised |-> None] :
                               cfg \in RunPlans, persona \in {"campaign", "minfin"}}]
    /\ label_map = [keys |-> <<>>, label |-> <<>>]
    /\ pc = "run_pipeline"
    /\ raw = Unused
    /\ config = Unused
    /\ load_result = Unused
    /\ df = Unused
    /\ idx = 0
    /\ results = <<>>
    /\ raised = None
    /\ descriptives = Unused
    /\ corr_matrix = Unused

NextRuns ==
    \E r \in RunIds :
        \/ RunInitLabels(r)
        \/ RunAnalysis(r)
        \/ RunLabelTest(r)
        \/ RunLabelReturn(r)
        \/ RunReportWritten(r)

SpecRuns == InitRuns /\ [][NextRuns]_vars

----------------------------------------------------------------------------
(* Claims about runs (SpecRuns) *)

OwnLabel(r, k) ==
    generate_labels(runs[r].config).label[runs[r].descriptives[k].item_id]

\* C19: a label looked up by a run is the label generated from that run's
\* own plan, and no lookup fails. Violated: init_labels of the other run
\* rebinds the shared cache, and get_item_label reads whatever is there.
C19_NoLeakBetweenRuns ==
    \A r \in RunIds :
        /\ \A k \in 1..Len(runs[r].looked_up) : runs[r].looked_up[k] = OwnLabel(r, k)
        /\ runs[r].pc # "get_item_label_raised"

\* while the other run has not called init_labels, a run reads its own labels
C19_AloneOwnLabels ==
    \A r, o \in RunIds :
        r # o /\ runs[o].pc = "init_labels" =>
            \A k \in 1..Len(runs[r].looked_up) : runs[r].looked_up[k] = OwnLabel(r, k)

----------------------------------------------------------------------------
(* Claims about the QA filters (SpecLoad) *)

\* the positions of the source rows whose cell, as written in the file, is
\* the given text
SourceMatches(col, value) ==
    SelectSeq([k \in 1..Len(csv.rows) |-> k], LAMBDA k : csv.rows[k][col] = Some(value))

\* the positions of the source rows that pass both filters
SourceKept ==
    LET qa == config.qa_filters
    IN  SelectSeq(SourceMatches(qa.age_column, qa.age_keep_value),
                  LAMBDA k : csv.rows[k][qa.attention_check_column]
                                 = Some(qa.attention_check_expected))

\* the source columns that are neither universe items nor QA columns
SourceIgnored ==
    SelectSeq(csv.columns,
              LAMBDA c : /\ c \notin Range(config.items_universe)
                         /\ c \notin {config.qa_filters.age_column,
                                      config.qa_filters.attention_check_column})

\* the filters of a successful load are exact and sequential over the source
ExactFilters ==
    LET r == load_result[1]
        qa == config.qa_filters
    IN  /\ r.n_after_age = Len(SourceMatches(qa.age_column, qa.age_keep_value))
        /\ r.n_after_attention = Len(SourceKept)
        /\ r.df.rows = [k \in 1..Len(SourceKept) |-> ReadCsv(csv).rows[SourceKept[k]]]

\* C21: n_after_age counts the source rows whose age equals age_keep_value,
\* the returned table holds exactly the source rows, in source order, whose
\* age and attention-check values equal the configured ones, and
\* ignored_columns is the source columns that are neither items nor QA
\* columns. Violated: a QA column whose cells all parse as numbers is read
\* with a numeric dtype and equals no configured string.
C21_ExactSequentialFilters ==
    pc = "load_returned" =>
        /\ ExactFilters
        /\ load_result[1].ignored_columns = SourceIgnored

\* the filters are exact when read_csv keeps both QA columns as text
C21_TextColumnsExact ==
    pc = "load_returned"
    /\ config.qa_filters.age_column \notin ReadCsv(csv).numeric
    /\ config.qa_filters.attention_check_column \notin ReadCsv(csv).numeric
    => ExactFilters

\* ignored_columns is as stated for every successful load
C21_IgnoredColumns ==
    pc = "load_returned" => load_result[1].ignored_columns = SourceIgnored

\* a row kept by both text filters, next to removed ones, and an ignored column
C21_TextReached ==
    /\ pc = "load_returned"
    /\ Len(csv.rows) = 2
    /\ Len(load_result[1].df.rows) = 1
    /\ load_result[1].n_after_age = 2
    /\ load_result[1].ignored_columns = <<"ts">>

----------------------------------------------------------------------------
(* The encoder and the descriptive engine on one item column: the loaded   *)
(* table is drawn directly, every row having passed the QA filters.        *)

\* most rows of the loaded table
MaxEncodeRows == 3

\* the cells of the item column in the source file: missing, numbers inside
\* and outside 1..5, phrases of either lexicon, and other text
EncodeCells ==
    {None, Some("3"), Some("7"), Some("Raczej sie zgadzam"),
     Some("Zdecydowanie sie zgadzam"), Some("Wcale"), Some("W duzym stopniu"),
     Some("other")}

\* the file whose only column is q1
EncodeFile(cells) ==
    [exists |-> TRUE, path |-> "csv_path", columns |-> <<"q1">>,
     rows |-> [k \in 1..Len(cells) |-> [c \in {"q1"} |-> cells[k]]]]

EncodeFiles(n) == {EncodeFile(cells) : cells \in SeqsUpTo(EncodeCells, n)}

InitEncode ==
    /\ csv \in EncodeFiles(MaxEncodeRows)
    /\ load_result = Some(LoadResult(ReadCsv(csv), Len(csv.rows), Len(csv.rows),
                                     Len(csv.rows), <<>>))
    /\ config \in {PipePlan(<<"q1">>, [correlations |-> [scope |-> "all_items",
                                                           items_explicit |-> <<>>],
                                       indices |-> <<>>], th) :
                     th \in {Frac(0, 1), Frac(1, 3), Frac(1, 2)}}
    /\ pc = "load_returned"
    /\ raised = None
    /\ df = None
    /\ descriptives = <<>>
    /\ corr_matrix = None
    /\ idx = 0
    /\ results = <<>>
    /\ raw = Unused
    /\ label_map = Unused
    /\ runs = Unused

NextEncode ==
    \/ EncodeLikert
    \/ ComputeDescriptives

SpecEncode == InitEncode /\ [][NextEncode]_vars

----------------------------------------------------------------------------
(* Claims about encode_likert (SpecEncode) *)

Encoded == pc \in {"encoded", "described"}

\* the item column as loaded and as encoded
SourceSeries == Column(load_result[1].df, "q1")
EncodedSeries == Column(df, "q1")

\* the item column as written in the file
FileSeries == [k \in 1..Len(csv.rows) |-> csv.rows[k]["q1"]]

\* the column was read as text
TextColumn == "q1" \notin load_result[1].df.numeric

\* some cell of the column parses as a number
SomeParses == \E k \in 1..Len(SourceSeries) : ToNumericCell(SourceSeries[k]) # None

\* C22: after encode_likert every value of an items_universe column is one
\* of 1..5 or missing, whatever the representation of the source column.
\* Violated: numbers are taken as they are, inside 1..5 or not.
C22_EncodedInRange ==
    Encoded =>
        \A k \in 1..Len(EncodedSeries) :
            EncodedSeries[k] = None \/ EncodedSeries[k][1] \in 1..5

\* a column encoded from the lexicons alone is within 1..5 or missing
C22_LexiconInRange ==
    Encoded /\ TextColumn /\ ~SomeParses =>
        \A k \in 1..Len(EncodedSeries) :
            EncodedSeries[k] = None \/ EncodedSeries[k][1] \in 1..5

\* C23: for a column read as text, if at least one value parses as a number
\* the encoded column is the numeric interpretation of the whole column:
\* every entry that does not parse, phrases of either lexicon included, is
\* missing; only when no value parses does an entry come from a lexicon
C23_NumericInterpretationWins ==
    Encoded /\ TextColumn =>
        /\ SomeParses =>
              \A k \in 1..Len(SourceSeries) :
                  /\ EncodedSeries[k] = ToNumericCell(SourceSeries[k])
                  /\ SourceSeries[k] # None
                     /\ SourceSeries[k][1] \in Range(LIKERT_AGREE_MAP) \cup Range(LIKERT_DEGREE_MAP)
                     => EncodedSeries[k] = None
        /\ ~SomeParses =>
              \A k \in 1..Len(SourceSeries) :
                  EncodedSeries[k] \in {MapCell(SourceSeries[k], LIKERT_AGREE_MAP),
                                        MapCell(SourceSeries[k], LIKERT_DEGREE_MAP)}

\* a number next to a phrase of each lexicon: the phrases become missing
C23_Witness ==
    /\ Encoded
    /\ FileSeries = <<Some("Zdecydowanie sie zgadzam"), Some("Wcale"), Some("3")>>
    /\ EncodedSeries = <<None, None, Some(3)>>

\* the present values of the source column, and those the agree lexicon maps
PresentCount == NotNaSum(SourceSeries)
AgreeCount ==
    Cardinality({k \in 1..Len(SourceSeries) :
                    MapCell(SourceSeries[k], LIKERT_AGREE_MAP) # None})

\* C24: a text column without numbers is encoded by the agree lexicon unless
\* strictly fewer than half of its present values map under it; then it is
\* encoded by the degree lexicon alone. At exactly half the agree mapping
\* is kept, and a column without present values stays all missing.
C24_DegreeFallbackBelowHalf ==
    Encoded =>
        /\ TextColumn /\ ~SomeParses =>
              \A k \in 1..Len(SourceSeries) :
                  EncodedSeries[k] =
                      IF 2 * AgreeCount < PresentCount
                      THEN MapCell(SourceSeries[k], LIKERT_DEGREE_MAP)
                      ELSE MapCell(SourceSeries[k], LIKERT_AGREE_MAP)
        /\ PresentCount = 0 => \A k \in 1..Len(EncodedSeries) : EncodedSeries[k] = None

\* one agree phrase among three values: the degree mapping replaces the
\* agree mapping, and the value the agree lexicon had mapped is missing
C24_Witness ==
    /\ Encoded
    /\ FileSeries = <<Some("Raczej sie zgadzam"), Some("Wcale"), Some("other")>>
    /\ EncodedSeries = <<None, Some(1), None>>

\* exactly half of the present values map: the agree mapping is kept
C24_HalfReached ==
    /\ Encoded
    /\ FileSeries = <<Some("Raczej sie zgadzam"), Some("Wcale"), None>>
    /\ EncodedSeries = <<Some(4), None, None>>

----------------------------------------------------------------------------
(* One grouped test on a table given by its group sizes: run_confirmatory_ *)
(* tests reads the groups, their non-missing counts and their values.      *)

\* most non-missing dv values of one group
MaxGroupSize == 2

GroupIds == {1, 2, 3}

\* the rows of group g: present answers, then rows with a missing answer.
\* With varied, the first answer of group 1 is 2; every other answer is 1.
GroupRows(g, present, missing, varied) ==
    [k \in 1..present |->
        [q1 |-> Some(IF varied /\ g = 1 /\ k = 1 THEN 2 ELSE 1), grp |-> Some(g)]]
    \o [k \in 1..missing |-> [q1 |-> None, grp |-> Some(g)]]

\* an encoded table with the given rows per group and rows without a group
GroupTable(present, missing, unkeyed, varied) ==
    [columns |-> {"q1", "grp"},
     rows |-> GroupRows(1, present[1], missing[1], varied)
              \o GroupRows(2, present[2], missing[2], varied)
              \o GroupRows(3, present[3], missing[3], varied)
              \o [k \in 1..unkeyed |-> [q1 |-> Some(1), grp |-> None]]]

GroupTables(n) ==
    {GroupTable(present, missing, unkeyed, varied) :
        present \in [GroupIds -> 0..n], missing \in [GroupIds -> 0..1],
        unkeyed \in 0..1, varied \in BOOLEAN}

\* one grouped test: the grouping column is present, absent or not given,
\* and the dv is a column of the table or not
GroupedTests ==
    {<<[id |-> "t1", dv |-> dv, iv_grouping |-> iv, test_type |-> ty]>> :
        dv \in {"q1"}, iv \in {None, Some("grp"), Some("gx")},
        ty \in {"mann_whitney", "kruskal_wallis"}}
    \cup {<<[id |-> "t1", dv |-> "qx", iv_grouping |-> Some("grp"), test_type |-> ty]>> :
            ty \in {"mann_whitney", "kruskal_wallis"}}

InitGroups ==
    /\ df \in GroupTables(MaxGroupSize)
    /\ config \in {[confirmatory_tests |-> ts, gating_thresholds |-> [min_group_n |-> m]] :
                     ts \in GroupedTests, m \in {1, 2}}
    /\ pc = "conf_call"
    /\ idx = 0
    /\ results = <<>>
    /\ raised = None
    /\ raw = Unused
    /\ csv = Unused
    /\ load_result = Unused
    /\ OutputsUnused

NextGroups ==
    \/ ConfCall
    \/ ConfMannWhitney
    \/ ConfKruskalWallis
    \/ ConfReturn

SpecGroups == InitGroups /\ [][NextGroups]_vars

----------------------------------------------------------------------------
(* Claims about the grouped tests (SpecGroups) *)

\* the single test, and its result once the engine returned
TheTest == config.confirmatory_tests[1]
MinN == config.gating_thresholds.min_group_n
GroupedDone == pc \in {"conf_returned", "conf_raised"}

\* the grouping column of the test is a column of the table
IvColumnPresent ==
    TheTest.iv_grouping # None /\ TheTest.iv_grouping[1] \in df.columns

\* the groups the rows fall into, and the non-missing dv count of a group
GroupsFound == {g \in GroupIds : \E k \in 1..Len(df.rows) : df.rows[k].grp = Some(g)}

GroupSize(g) ==
    Cardinality({k \in 1..Len(df.rows) : df.rows[k].grp = Some(g) /\ df.rows[k].q1 # None})

RECURSIVE SizeSum(_)
SizeSum(G) ==
    IF G = {} THEN 0
    ELSE LET g == CHOOSE x \in G : TRUE IN GroupSize(g) + SizeSum(G \ {g})

NullStatistics(r) ==
    r.statistic = None /\ r.p = None /\ r.p_adj = None /\ r.effect_size = None

\* the outcome C25 states for a returned mann_whitney result
MannWhitneyGating(r) ==
    /\ (r.statistic # None /\ r.p # None /\ r.effect_size # None)
        <=> /\ IvColumnPresent
            /\ Cardinality(GroupsFound) = 2
            /\ \A g \in GroupsFound : GroupSize(g) >= MinN
    /\ IvColumnPresent /\ Cardinality(GroupsFound) # 2 =>
          /\ NullStatistics(r)
          /\ r.note = Note("Mann-Whitney requires exactly 2 groups, found ",
                           <<Cardinality(GroupsFound)>>)
    /\ IvColumnPresent /\ Cardinality(GroupsFound) = 2
       /\ (\E g \in GroupsFound : GroupSize(g) < MinN) =>
          /\ NullStatistics(r)
          /\ r.note = Note("Skipped: group n < ", <<MinN>>)
          /\ r.n = SizeSum(GroupsFound)

\* C25: a mann_whitney test yields a result, with non-null statistic, p and
\* effect size exactly when the grouping column is present, the rows fall
\* into exactly two groups and both have at least min_group_n non-missing
\* dv values; another group count is stated in the note; a group below
\* min_group_n gives a skip citing it, with n the combined size. Violated:
\* with the dv column absent the test raises KeyError and yields no result.
C25_MannWhitneyGating ==
    GroupedDone /\ TheTest.test_type = "mann_whitney" =>
        /\ pc = "conf_returned"
        /\ MannWhitneyGating(results[1])

\* the gating is as stated whenever the engine returns
C25_WhenReturned ==
    pc = "conf_returned" /\ TheTest.test_type = "mann_whitney" =>
        MannWhitneyGating(results[1])

\* sizes 2 and 1 with min_group_n 2: a skip with n = 3
C25_SkipReached ==
    /\ pc = "conf_returned" /\ TheTest.test_type = "mann_whitney"
    /\ MinN = 2
    /\ GroupsFound = {1, 2} /\ GroupSize(1) = 2 /\ GroupSize(2) = 1
    /\ results[1].n = 3
    /\ results[1].statistic = None

\* the groups that qualify for a kruskal_wallis test
Qualifying == {g \in GroupsFound : GroupSize(g) >= MinN}

\* the outcome C26 states for a returned kruskal_wallis result
KruskalWallisGating(r) ==
    IvColumnPresent =>
        IF Cardinality(Qualifying) < 2
        THEN /\ NullStatistics(r)
             /\ r.note = Note("Skipped: fewer than 2 groups with n >= ", <<MinN>>)
        ELSE /\ r.statistic # None /\ r.p # None
             /\ r.n = SizeSum(Qualifying)
             /\ r.note = Note("Kruskal-Wallis ({} groups)", <<Cardinality(Qualifying)>>)

\* C26: a kruskal_wallis test keeps the groups with at least min_group_n
\* non-missing dv values; with fewer than 2 of them it is skipped with a
\* note citing min_group_n, otherwise it is run on them alone, n is their
\* pooled size and the note records their number. Violated: with the dv
\* column absent the test raises KeyError, and scipy may refuse qualifying
\* groups whose values are all identical.
C26_KruskalWallisGating ==
    GroupedDone /\ TheTest.test_type = "kruskal_wallis" =>
        /\ pc = "conf_returned"
        /\ KruskalWallisGating(results[1])

\* the gating is as stated whenever the engine returns
C26_WhenReturned ==
    pc = "conf_returned" /\ TheTest.test_type = "kruskal_wallis" =>
        KruskalWallisGating(results[1])

\* groups of sizes 2, 2 and 1 with min_group_n 2: the test runs on the first
\* two, n = 4
C26_QualifyingOnlyReached ==
    /\ pc = "conf_returned" /\ TheTest.test_type = "kruskal_wallis"
    /\ MinN = 2
    /\ GroupSize(1) = 2 /\ GroupSize(2) = 2 /\ GroupSize(3) = 1
    /\ results[1].n = 4
    /\ results[1].statistic # None
    /\ results[1].note = Note("Kruskal-Wallis ({} groups)", <<2>>)

\* C27: for every kruskal_wallis test that is run (non-null H and p),
\* effect_size is H / (N - 1) with N the pooled qualifying size, and null
\* only when N <= 1. Violated: `float(epsilon_sq) if epsilon_sq else None`
\* reports null for H = 0.
C27_EpsilonSquared ==
    pc = "conf_returned" /\ TheTest.test_type = "kruskal_wallis"
    /\ results[1].statistic # None /\ results[1].p # None =>
        results[1].effect_size =
            IF SizeSum(Qualifying) > 1
            THEN Some(Frac(results[1].statistic[1].num,
                           results[1].statistic[1].den * (SizeSum(Qualifying) - 1)))
            ELSE None

\* for H > 0 the effect size is H / (N - 1)
C27_PositiveH ==
    pc = "conf_returned" /\ TheTest.test_type = "kruskal_wallis"
    /\ results[1].statistic # None /\ results[1].statistic[1].num > 0 =>
        results[1].effect_size =
            Some(Frac(results[1].statistic[1].num,
                      results[1].statistic[1].den * (SizeSum(Qualifying) - 1)))

----------------------------------------------------------------------------
(* Claims about compute_descriptives on one item (SpecEncode) *)

\* the positions of the encoded column that hold a value
PresentRows == {k \in 1..Len(EncodedSeries) : EncodedSeries[k] # None}

\* how many encoded values equal v
Occurrences(v) == Cardinality({k \in PresentRows : EncodedSeries[k][1] = v})

\* C28: n is the count of non-missing encoded values, missing_pct is
\* (total_rows - n) / total_rows, 0 for a table without rows, and the item
\* is flagged exactly when missing_pct is strictly greater than
\* flag_threshold
C28_MissingnessFlag ==
    pc = "described" =>
        LET d == descriptives[1]
            total_rows == Len(df.rows)
            n == Cardinality(PresentRows)
            th == config.missingness_rules.flag_threshold
        IN  /\ d.n = n
            /\ d.missing_pct = IF total_rows > 0 THEN Frac(total_rows - n, total_rows)
                               ELSE Frac(0, 1)
            /\ d.flagged_missingness <=>
                   /\ total_rows > 0
                   /\ (total_rows - n) * th.den > th.num * total_rows

\* an item whose missing_pct equals a positive threshold is not flagged
C28_Witness ==
    /\ pc = "described"
    /\ descriptives[1].n > 0
    /\ descriptives[1].missing_pct = config.missingness_rules.flag_threshold
    /\ descriptives[1].missing_pct.num > 0
    /\ ~descriptives[1].flagged_missingness

\* with a table without rows no item is flagged, whatever the threshold
C28_EmptyReached ==
    /\ pc = "described"
    /\ Len(df.rows) = 0
    /\ config.missingness_rules.flag_threshold = Frac(0, 1)
    /\ ~descriptives[1].flagged_missingness

\* C29: for an item with n > 0, mode is a most frequent encoded value, and
\* the smallest of the values tied for the highest frequency; for an item
\* with n = 0, mode is null and the five level proportions are 0
C29_ModeSmallestOfTied ==
    pc = "described" =>
        LET d == descriptives[1]
        IN  /\ d.n > 0 =>
                  /\ d.mode # None
                  /\ Occurrences(d.mode[1]) > 0
                  /\ \A k \in PresentRows :
                        LET v == EncodedSeries[k][1]
                        IN  /\ Occurrences(v) <= Occurrences(d.mode[1])
                            /\ Occurrences(v) = Occurrences(d.mode[1]) => d.mode[1] <= v
            /\ d.n = 0 =>
                  /\ d.mode = None
                  /\ \A pct \in {d.pct_1, d.pct_2, d.pct_3, d.pct_4, d.pct_5} : pct = Frac(0, 1)

\* the values 5 and 4 once each: the mode is 4
C29_Witness ==
    /\ pc = "described"
    /\ FileSeries = <<Some("Zdecydowanie sie zgadzam"), Some("Raczej sie zgadzam")>>
    /\ EncodedSeries = <<Some(5), Some(4)>>
    /\ descriptives[1].mode = Some(4)

\* the value 5 twice and 4 once: the mode is the most frequent, 5
C29_FrequentReached ==
    /\ pc = "described"
    /\ FileSeries = <<Some("Zdecydowanie sie zgadzam"), Some("Raczej sie zgadzam"),
                      Some("Zdecydowanie sie zgadzam")>>
    /\ descriptives[1].mode = Some(5)

\* an item nobody answered
C29_UnansweredReached ==
    /\ pc = "described"
    /\ Len(df.rows) = 2
    /\ descriptives[1].n = 0
    /\ descriptives[1].mode = None

----------------------------------------------------------------------------
(* apply_fdr_correction applied again to the list it returned *)

ApplyFdrCorrectionAgain ==
    /\ pc = "fdr_returned"
    /\ results' = apply_fdr_correction(results, config)
    /\ pc' = "fdr_returned_again"
    /\ UNCHANGED outputs
    /\ UNCHANGED <<raw, config, csv, load_result, df, idx, raised>>

NextFdrTwice ==
    \/ ApplyFdrCorrection
    \/ ApplyFdrCorrectionAgain

SpecFdrTwice == InitFdr /\ [][NextFdrTwice]_vars

\* C30: apply_fdr_correction is idempotent: applied to the list it returned,
\* under the same plan, it leaves every p_adj and every other field of every
\* result as the first application left them
C30_Idempotent == [][pc = "fdr_returned" => results' = results]_vars

\* after the second application: three tests with p-values, of which the
\* correction raised at least one
C30_Witness ==
    /\ pc = "fdr_returned_again"
    /\ Len(results) = 3
    /\ \A k \in 1..3 : results[k].p # None /\ results[k].p_adj # None
    /\ \E k \in 1..3 : results[k].p_adj # results[k].p

====
